---- MODULE Spec2Model ----
(***************************************************************************)
(* Room Session Protocol of @agree-able/room (index.mjs): the BreakoutRoom *)
(* session (ready, message, pairing callbacks, exit), the apply function   *)
(* that materializes the view, the view 'append' handler, and the          *)
(* RoomManager registry (createRoom, the roomClosed listener, cleanup and  *)
(* the signal hook), getTranscript, and the negotiator that startAgreeable *)
(* sets up (roomExpectations and newRoom with createReadyRoom).            *)
(*                                                                         *)
(* Three session objects are modelled.  In the room specifications "h" is  *)
(* constructed without an invite (host) and "j" and "k" are constructed    *)
(* with the invite text that a ready() returned (joiners).  In the         *)
(* registry specification the sessions are the rooms that createRoom       *)
(* makes.  Every await of the source is a separate step, so that calls and *)
(* callbacks interleave as they do on the event loop; the tail of exit()   *)
(* is given both as one step (ExitFinish) and await by await (ExitUpdated, *)
(* ExitAdvance).                                                           *)
(*                                                                         *)
(* Environment (callers and the external engines), as the source and its   *)
(* examples use them:                                                      *)
(*  - message() and exit() are called on a session whose ready() returned; *)
(*  - autobase.append completes in call order (one queue per session);     *)
(*  - the merge engine hands apply() batches of nodes of one writer, in    *)
(*    that writer's append order, only for writers the base has added;     *)
(*  - values read back from a remote writer's log went through the 'json'  *)
(*    value encoding (a Buffer comes back as {type:'Buffer', data});       *)
(*  - the view's 'append' signal fires once per applied batch that grew    *)
(*    the view, and may fire again while the view is unchanged.            *)
(***************************************************************************)
EXTENDS Integers, Sequences, FiniteSets

\* ---------------------------------------------------------------- bounds
MaxReadyCalls == 2      \* ready() calls per session
MaxMsgs == 1            \* message() calls, all sessions together
MaxBatch == 2           \* nodes handed to one apply() call
MaxPending == 2         \* 'append' handler runs in flight per session
MaxExitCalls == 2       \* exit() calls a caller makes per session
MaxRepeats == 1         \* repeated 'append' signals, all sessions together
MaxCleanups == 2        \* cleanup() calls on the registry (direct or by signal)
MaxNewRooms == 2        \* newRoom requests the negotiator receives
MaxChallenges == 2      \* roomExpectations requests the negotiator receives
MaxReads == 1           \* getTranscript() calls per session

Sessions == {"h", "j", "k"}

\* The objects that hold resources: the sessions and the registry.
Holders == Sessions \cup {"mgr"}

\* The three shared resources a session or a registry holds.
Kinds == {"corestore", "swarm", "pairing"}

\* The public keys of the remote parties that negotiate with the registry.
RemoteKeys == {"A", "B"}

\* ---------------------------------------------------------------- values
Undefined == [undefined |-> TRUE]

\* A Buffer holding the (abstract) byte string b.
Buf(b) == [buf |-> b]

\* z32.encode: Buffer -> text, z32.decode: text -> Buffer.
Z32Encode(b) == [z32 |-> b.buf]

Z32Decode(t) == [buf |-> t.z32]

\* The 'json' value encoding of a Buffer payload (Buffer.prototype.toJSON).
JsonBuffer(b) == [type |-> "Buffer", data |-> b.buf]

\* autobase.local.key of each session.
LocalKey(s) == IF s = "h" THEN Buf(1) ELSE IF s = "j" THEN Buf(2) ELSE Buf(3)

\* BlindPairing.createInvite(key): { invite, publicKey, discoveryKey }.
CreateInvite(key) ==
  [invite |-> Buf(key.buf + 10),
   publicKey |-> Buf(key.buf + 20),
   discoveryKey |-> Buf(key.buf + 30)]

VARIABLES
  constructed,            \* s -> the BreakoutRoom object exists
  initialized,            \* s -> this.initialized
  invite,                 \* s -> this.invite (Buffer or Undefined)
  metadata,               \* s -> this.metadata: [who, host]
  lastEmitMessageLength,  \* s -> this.lastEmitMessageLength (-1: not yet set)
  effects,                \* s -> counts of view.on / swarm.join / addCandidate / addMember
  readyCalls,             \* s -> sequence of ready() calls: [pc, ret, late]
  candidates,             \* pairing: candidates submitted with addCandidate
  confirms,               \* s -> host confirmations in flight to s's onadd
  handshakes,             \* s -> keys whose pairing callback has run on s
  appendQ,                \* s -> autobase.append calls in flight: [entry, cont]
  localLog,               \* s -> s's own writer log
  consumed,               \* s -> w -> number of w's entries s's apply has seen
  merged,                 \* s -> every node s's apply has processed, in order
  view,                   \* s -> autobase.view
  addWriterCalls,         \* s -> keys passed to base.addWriter, in order
  pending,                \* s -> 'append' handler runs awaiting view.get: [idx]
  ticks,                  \* s -> process.nextTick queue: deferred message emits
  notes,                  \* s -> everything the session emitted, in order
  exitCalls,              \* s -> sequence of exit() calls: [pc]
  repeats,                \* s -> number of repeated 'append' signals so far
  closed,                 \* s -> autobase.close() has run
  internalManaged,        \* s -> this.internalManaged: kind -> BOOLEAN
  resources,              \* s -> kind -> who made the resource the session holds
  listeners,              \* s -> the registry's roomClosed listener is registered
  closes,                 \* who -> the close/destroy calls who made: [by, kind, res]
  rooms,                  \* registry: this.rooms, as the set of tracked sessions
  mgrInternal,            \* registry: this.internalManaged: kind -> BOOLEAN
  mgrResources,           \* registry: kind -> who made the resource it holds
  sigInstalled,           \* registry: installSIGHandlers has run
  closingDown,            \* registry: this.closingDown (unset reads as false)
  cleanupCalls,           \* registry: sequence of cleanup() calls: [pc, exits, signal]
  mgrTicks,               \* registry: process.nextTick queue of deferred emits
  mgrNotes,               \* registry: everything the registry emitted, in order
  expectations,           \* negotiator: the expectations startAgreeable was given
  validateParticipant,    \* negotiator: a validation hook was given
  challengeTexts,         \* negotiator: this.challengeTexts, remote key -> text
  newRoomCalls,           \* negotiator: the newRoom calls, in call order
  expectationCalls,       \* negotiator: the roomExpectations calls, in call order
  transcriptCalls         \* s -> sequence of getTranscript() calls: [pc, i, transcript]

\* The registry's own state.
mgrVars == <<rooms, mgrInternal, mgrResources, sigInstalled, closingDown,
             cleanupCalls, mgrTicks, mgrNotes>>

\* Ownership of the shared resources and the record of their release.
ownVars == <<internalManaged, resources, listeners, closes>>

\* The trust negotiator's state (startAgreeable).
negVars == <<expectations, validateParticipant, challengeTexts, newRoomCalls,
             expectationCalls>>

regVars == <<mgrVars, ownVars, negVars, transcriptCalls>>

vars == <<constructed, initialized, invite, metadata, lastEmitMessageLength,
          effects, readyCalls, candidates, confirms, handshakes, appendQ,
          localLog, consumed, merged, view, addWriterCalls, pending, ticks,
          notes, exitCalls, repeats, closed, regVars>>

\* -------------------------------------------------------------- ownership
\* A variant of InternalManaged that sets every flag, supplied or not.
InternalManaged_Always(supplied) == [kind \in Kinds |-> TRUE]

\* The constructors' "use the supplied resource or make one" (both classes):
\* internalManaged[kind] is set exactly when opts does not supply that kind.
\* supplied is the set of kinds opts carries.
InternalManaged(supplied) == [kind \in Kinds |-> kind \notin supplied]

\* Who made each resource an object holds: the object itself (self) for the
\* kinds it made, otherwise whoever made the one it was handed (from).
Held(self, supplied, from) ==
  [kind \in Kinds |-> IF kind \in supplied THEN from[kind] ELSE self]

NoResources == [kind \in Kinds |-> "none"]

\* getRoomOptions(roomId): { corestore, swarm, pairing }, all three supplied.
RoomOptions == Kinds

\* ----------------------------------------------------------- constructors
\* The session objects: those in built were made with new BreakoutRoom() (no
\* options, so each made its own store, swarm and pairing coordinator), the
\* others do not exist yet.
InitSessions(built) ==
  /\ constructed = [s \in Sessions |-> s \in built]
  /\ internalManaged = [s \in Sessions |->
       IF s \in built THEN InternalManaged({}) ELSE [kind \in Kinds |-> FALSE]]
  /\ resources = [s \in Sessions |->
       IF s \in built THEN Held(s, {}, NoResources) ELSE NoResources]
  /\ listeners = [s \in Sessions |-> FALSE]
  /\ closes = [who \in Holders |-> <<>>]
  /\ initialized = [s \in Sessions |-> FALSE]
  /\ invite = [s \in Sessions |-> Undefined]
  /\ metadata = [s \in Sessions |-> [who |-> Undefined, host |-> Undefined]]
  /\ lastEmitMessageLength = [s \in Sessions |-> -1]
  /\ effects = [s \in Sessions |->
                  [handlers |-> 0, joins |-> 0, addCandidate |-> 0, addMember |-> 0]]
  /\ readyCalls = [s \in Sessions |-> <<>>]
  /\ candidates = {}
  /\ confirms = [s \in Sessions |-> <<>>]
  /\ handshakes = [s \in Sessions |-> {}]
  /\ appendQ = [s \in Sessions |-> <<>>]
  /\ localLog = [s \in Sessions |-> <<>>]
  /\ consumed = [s \in Sessions |-> [w \in Sessions |-> 0]]
  /\ merged = [s \in Sessions |-> <<>>]
  /\ view = [s \in Sessions |-> <<>>]
  /\ addWriterCalls = [s \in Sessions |-> <<>>]
  /\ pending = [s \in Sessions |-> <<>>]
  /\ ticks = [s \in Sessions |-> <<>>]
  /\ notes = [s \in Sessions |-> <<>>]
  /\ exitCalls = [s \in Sessions |-> <<>>]
  /\ repeats = [s \in Sessions |-> 0]
  /\ closed = [s \in Sessions |-> FALSE]
  /\ transcriptCalls = [s \in Sessions |-> <<>>]

\* new RoomManager(opts), opts supplying the kinds in supplied (made by the
\* registry's caller); closingDown is unset until installSIGHandlers, no
\* challenge is recorded and startAgreeable has not been called.
InitManager(supplied) ==
  /\ mgrInternal = InternalManaged(supplied)
  /\ mgrResources = Held("mgr", supplied, [kind \in Kinds |-> "caller"])
  /\ rooms = {}
  /\ sigInstalled = FALSE
  /\ closingDown = FALSE
  /\ cleanupCalls = <<>>
  /\ mgrTicks = <<>>
  /\ mgrNotes = <<>>
  /\ expectations = Undefined
  /\ validateParticipant = FALSE
  /\ challengeTexts = [key \in RemoteKeys |-> Undefined]
  /\ newRoomCalls = <<>>
  /\ expectationCalls = <<>>

\* One room: the host session exists, the joiners are constructed later.
Init == InitSessions({"h"}) /\ InitManager({})

\* A registry and no session yet.  The registry made all its resources, or
\* was handed the swarm only, or was handed all three.
InitRegistry ==
  InitSessions({}) /\ \E supplied \in {{}, {"swarm"}, Kinds} : InitManager(supplied)

\* ---------------------------------------------------------------- helpers
RemoveAt(q, i) == SubSeq(q, 1, i - 1) \o SubSeq(q, i + 1, Len(q))

IsPrefix(p, q) == Len(p) <= Len(q) /\ SubSeq(q, 1, Len(p)) = p

\* ready() has returned to some caller of s.
IsReady(s) == \E i \in DOMAIN readyCalls[s] : readyCalls[s][i].pc = "done"

\* The ready() call that ran the initialization (the first one) has returned.
FirstReadyDone(s) == readyCalls[s] # <<>> /\ readyCalls[s][1].pc = "done"

\* The invite texts a caller can hold: what a ready() call returned as a string.
InviteTexts ==
  {r.ret : r \in UNION {{readyCalls[s][i] : i \in DOMAIN readyCalls[s]} : s \in Sessions}}
    \cap {Z32Encode(CreateInvite(LocalKey(s)).invite) : s \in Sessions}

\* new BreakoutRoom({ invite: t }): the joiner's constructor decodes the text.
Construct(s, t) ==
  /\ ~constructed[s]
  /\ constructed' = [constructed EXCEPT ![s] = TRUE]
  /\ invite' = [invite EXCEPT ![s] = Z32Decode(t)]
  /\ internalManaged' = [internalManaged EXCEPT ![s] = InternalManaged({})]
  /\ resources' = [resources EXCEPT ![s] = Held(s, {}, NoResources)]
  /\ UNCHANGED <<initialized, metadata, lastEmitMessageLength, effects, readyCalls,
                 candidates, confirms, handshakes, appendQ, localLog, consumed,
                 merged, view, addWriterCalls, pending, ticks, notes, exitCalls,
                 closed, repeats, mgrVars, listeners, closes, negVars,
                 transcriptCalls>>

\* ------------------------------------------------------------------ ready
\* A variant of AlreadyInitialized in which the guard never fires.
AlreadyInitialized_Never(s) == FALSE

\* if (this.initialized)
AlreadyInitialized(s) == initialized[s]

\* ready(), up to its first await: the guard, the flag, await autobase.ready().
ReadyCall(s) ==
  /\ constructed[s]
  /\ Len(readyCalls[s]) < MaxReadyCalls
  /\ exitCalls[s] = <<>>
  /\ IF AlreadyInitialized(s)
       THEN /\ readyCalls' = [readyCalls EXCEPT ![s] =
                 Append(@, [pc |-> "done", ret |-> invite[s], late |-> FirstReadyDone(s)])]
            /\ UNCHANGED initialized
       ELSE /\ initialized' = [initialized EXCEPT ![s] = TRUE]
            /\ readyCalls' = [readyCalls EXCEPT ![s] =
                 Append(@, [pc |-> "base", ret |-> Undefined, late |-> FirstReadyDone(s)])]
  /\ UNCHANGED <<constructed, invite, metadata, lastEmitMessageLength, effects,
                 candidates, confirms, handshakes, appendQ, localLog, consumed,
                 merged, view, addWriterCalls, pending, ticks, notes, exitCalls,
                 closed, repeats, regVars>>

\* ready(), from autobase.ready() to the await of the pairing step: sets
\* metadata.who, registers the view handler, joins the topic, then either
\* addCandidate (invite held) or createInvite + addMember.
ReadyAfterBase(s, i) ==
  /\ i \in DOMAIN readyCalls[s]
  /\ readyCalls[s][i].pc = "base"
  /\ ~closed[s]
  /\ lastEmitMessageLength' = [lastEmitMessageLength EXCEPT ![s] = 0]
  /\ IF invite[s] # Undefined
       THEN /\ candidates' = candidates \cup
                 {[owner |-> s, n |-> effects[s].addCandidate + 1, invite |-> invite[s],
                   userData |-> LocalKey(s), state |-> "sent"]}
            /\ effects' = [effects EXCEPT ![s].handlers = @ + 1, ![s].joins = @ + 1,
                                          ![s].addCandidate = @ + 1]
            /\ metadata' = [metadata EXCEPT ![s].who = Z32Encode(LocalKey(s))]
            /\ readyCalls' = [readyCalls EXCEPT ![s][i].pc = "paring"]
       ELSE /\ effects' = [effects EXCEPT ![s].handlers = @ + 1, ![s].joins = @ + 1,
                                          ![s].addMember = @ + 1]
            /\ metadata' = [metadata EXCEPT
                 ![s].who = Z32Encode(LocalKey(s)),
                 ![s].host = [publicKey |-> Z32Encode(CreateInvite(LocalKey(s)).publicKey),
                              discoveryKey |-> Z32Encode(CreateInvite(LocalKey(s)).discoveryKey)]]
            /\ readyCalls' = [readyCalls EXCEPT ![s][i].pc = "flushed"]
            /\ UNCHANGED candidates
  /\ UNCHANGED <<constructed, initialized, invite, confirms, handshakes, appendQ,
                 localLog, consumed, merged, view, addWriterCalls, pending, ticks,
                 notes, exitCalls, repeats, closed, regVars>>

\* What awaiting candidate.paring waits for: the property does not exist on the
\* candidate (it is named pairing), so the await is of undefined and waits for
\* nothing.
ParingSettled(s) == TRUE

\* ready(), joiner branch after `await candidate.paring`: falls off the end.
ReadyJoinerReturn(s, i) ==
  /\ i \in DOMAIN readyCalls[s]
  /\ readyCalls[s][i].pc = "paring"
  /\ ParingSettled(s)
  /\ readyCalls' = [readyCalls EXCEPT ![s][i] = [@ EXCEPT !.pc = "done", !.ret = Undefined]]
  /\ UNCHANGED <<constructed, initialized, invite, metadata, lastEmitMessageLength,
                 effects, candidates, confirms, handshakes, appendQ, localLog,
                 consumed, merged, view, addWriterCalls, pending, ticks, notes,
                 exitCalls, closed, repeats, regVars>>

\* A variant of ReadyHostReturn that returns the invite bytes, not their text.
ReadyHostReturn_Raw(s, i) ==
  /\ i \in DOMAIN readyCalls[s]
  /\ readyCalls[s][i].pc = "flushed"
  /\ invite' = [invite EXCEPT ![s] = CreateInvite(LocalKey(s)).invite]
  /\ readyCalls' = [readyCalls EXCEPT ![s][i] =
       [@ EXCEPT !.pc = "done", !.ret = CreateInvite(LocalKey(s)).invite]]
  /\ UNCHANGED <<constructed, initialized, metadata, lastEmitMessageLength, effects,
                 candidates, confirms, handshakes, appendQ, localLog, consumed,
                 merged, view, addWriterCalls, pending, ticks, notes, exitCalls,
                 closed, repeats, regVars>>

\* ready(), host branch after `await member.flushed()`: stores the invite and
\* returns its text.
ReadyHostReturn(s, i) ==
  /\ i \in DOMAIN readyCalls[s]
  /\ readyCalls[s][i].pc = "flushed"
  /\ invite' = [invite EXCEPT ![s] = CreateInvite(LocalKey(s)).invite]
  /\ readyCalls' = [readyCalls EXCEPT ![s][i] =
       [@ EXCEPT !.pc = "done", !.ret = Z32Encode(CreateInvite(LocalKey(s)).invite)]]
  /\ UNCHANGED <<constructed, initialized, metadata, lastEmitMessageLength, effects,
                 candidates, confirms, handshakes, appendQ, localLog, consumed,
                 merged, view, addWriterCalls, pending, ticks, notes, exitCalls,
                 closed, repeats, regVars>>

\* ---------------------------------------------------------------- pairing
\* A variant of ConnectOtherCore that emits peerEntered without awaiting the append.
ConnectOtherCore_EmitFirst(s, key) ==
  /\ appendQ' = [appendQ EXCEPT ![s] =
       Append(@, [entry |-> [addWriter |-> key], cont |-> "none", call |-> 0])]
  /\ notes' = [notes EXCEPT ![s] =
       Append(@, [kind |-> "peerEntered", arg |-> Z32Encode(key), idx |-> 0])]

\* _connectOtherCore(key), up to its await: autobase.append({ addWriter: key });
\* the emit of peerEntered is the continuation run when that append completes.
ConnectOtherCore(s, key) ==
  /\ appendQ' = [appendQ EXCEPT ![s] =
       Append(@, [entry |-> [addWriter |-> key], cont |-> "peerEntered", call |-> 0])]
  /\ UNCHANGED notes

\* _onAddMember(publicKey, candidate): the pairing coordinator hands the host a
\* candidate that redeemed its invite; open, confirm with the host's writer
\* key, then _connectOtherCore(candidate.userData) (not awaited).
OnAddMember(s, c) ==
  /\ c \in candidates
  /\ c.state = "sent"
  /\ effects[s].addMember > 0
  /\ c.invite = CreateInvite(LocalKey(s)).invite
  /\ ~closed[s]
  /\ candidates' = (candidates \ {c}) \cup {[c EXCEPT !.state = "confirmed"]}
  /\ confirms' = [confirms EXCEPT ![c.owner] = Append(@, [key |-> LocalKey(s)])]
  /\ ConnectOtherCore(s, c.userData)
  /\ handshakes' = [handshakes EXCEPT ![s] = @ \cup {c.userData}]
  /\ UNCHANGED <<constructed, initialized, invite, metadata, lastEmitMessageLength,
                 effects, readyCalls, localLog, consumed, merged, view,
                 addWriterCalls, pending, ticks, exitCalls, closed, repeats, regVars>>

\* _onHostInvite(result): the host's confirmation reaches the joiner's onadd;
\* _connectOtherCore(result.key) (not awaited), then metadata.host.
OnHostInvite(s) ==
  /\ confirms[s] # <<>>
  /\ ~closed[s]
  /\ confirms' = [confirms EXCEPT ![s] = Tail(@)]
  /\ ConnectOtherCore(s, Head(confirms[s]).key)
  /\ metadata' = [metadata EXCEPT ![s].host =
                    [publicKey |-> Z32Encode(Head(confirms[s]).key)]]
  /\ handshakes' = [handshakes EXCEPT ![s] = @ \cup {Head(confirms[s]).key}]
  /\ UNCHANGED <<constructed, initialized, invite, lastEmitMessageLength, effects,
                 readyCalls, candidates, localLog, consumed, merged, view,
                 addWriterCalls, pending, ticks, exitCalls, closed, repeats, regVars>>

\* ------------------------------------------------------- append, message, exit
\* Date.now() at a call on s, as that session's logical clock: the number of
\* appends s has made so far (it never runs backwards).
Now(s) == Len(localLog[s]) + Len(appendQ[s])

IsMessage(e) == "data" \in DOMAIN e

IsLeftChat(e) == "event" \in DOMAIN e /\ e.event = "leftChat"

\* message() calls made so far on s (completed or in flight).
Sent(s) ==
  Len(SelectSeq(localLog[s], IsMessage))
    + Len(SelectSeq(appendQ[s], LAMBDA q : IsMessage(q.entry)))

\* message(data): autobase.append({ when, who, data }).
Message(s, d) ==
  /\ IsReady(s)
  /\ exitCalls[s] = <<>>
  /\ Sent("h") + Sent("j") + Sent("k") < MaxMsgs
  /\ appendQ' = [appendQ EXCEPT ![s] =
       Append(@, [entry |-> [when |-> Now(s), who |-> metadata[s].who, data |-> d],
                  cont |-> "none", call |-> 0])]
  /\ UNCHANGED <<constructed, initialized, invite, metadata, lastEmitMessageLength,
                 effects, readyCalls, candidates, confirms, handshakes, localLog,
                 consumed, merged, view, addWriterCalls, pending, ticks, notes,
                 exitCalls, closed, repeats, regVars>>

\* exit() calls a caller made on s so far (from = 0; the registry's cleanup
\* call number n makes its exit() calls with from = n).
CallerExits(s) == Len(SelectSeq(exitCalls[s], LAMBDA c : c.from = 0))

\* exit() entered on s, up to its first await: autobase.append of the leftChat
\* entry.  On a closed autobase the append rejects and exit() throws.
ExitCallsAfter(s, from) ==
  Append(exitCalls[s], [pc |-> IF closed[s] THEN "failed" ELSE "append", from |-> from])

AppendQAfterExit(s) ==
  IF closed[s] THEN appendQ[s]
  ELSE Append(appendQ[s],
         [entry |-> [when |-> Now(s), who |-> metadata[s].who, event |-> "leftChat"],
          cont |-> "exit", call |-> Len(exitCalls[s]) + 1])

\* A caller calls exit() on s.
ExitCall(s) ==
  /\ constructed[s]
  /\ CallerExits(s) < MaxExitCalls
  /\ exitCalls' = [exitCalls EXCEPT ![s] = ExitCallsAfter(s, 0)]
  /\ appendQ' = [appendQ EXCEPT ![s] = AppendQAfterExit(s)]
  /\ UNCHANGED <<constructed, initialized, invite, metadata, lastEmitMessageLength,
                 effects, readyCalls, candidates, confirms, handshakes, localLog,
                 consumed, merged, view, addWriterCalls, pending, ticks, notes,
                 closed, repeats, regVars>>

\* The oldest autobase.append in flight completes: the entry is in the local
\* writer's log and the caller's continuation runs (peerEntered is emitted by
\* _connectOtherCore; exit() goes on to autobase.update()).
AppendDone(s) ==
  /\ appendQ[s] # <<>>
  /\ ~closed[s]
  /\ appendQ' = [appendQ EXCEPT ![s] = Tail(@)]
  /\ localLog' = [localLog EXCEPT ![s] = Append(@, Head(appendQ[s]).entry)]
  /\ notes' = [notes EXCEPT ![s] =
       IF Head(appendQ[s]).cont = "peerEntered"
         THEN Append(@, [kind |-> "peerEntered",
                         arg |-> Z32Encode(Head(appendQ[s]).entry.addWriter), idx |-> 0])
         ELSE @]
  /\ exitCalls' = [exitCalls EXCEPT ![s] =
       IF Head(appendQ[s]).cont = "exit"
         THEN [@ EXCEPT ![Head(appendQ[s]).call].pc = "update"]
         ELSE @]
  /\ UNCHANGED <<constructed, initialized, invite, metadata, lastEmitMessageLength,
                 effects, readyCalls, candidates, confirms, handshakes, consumed,
                 merged, view, addWriterCalls, pending, ticks, closed, repeats, regVars>>

\* The oldest autobase.append in flight rejects (the engine or its storage
\* fails): nothing is written and the caller's await throws, which ends an
\* exit() call there (exit has no try or finally) and leaves message() and
\* _connectOtherCore rejected.
AppendFails(s) ==
  /\ appendQ[s] # <<>>
  /\ ~closed[s]
  /\ appendQ' = [appendQ EXCEPT ![s] = Tail(@)]
  /\ exitCalls' = [exitCalls EXCEPT ![s] =
       IF Head(appendQ[s]).cont = "exit"
         THEN [@ EXCEPT ![Head(appendQ[s]).call].pc = "failed"]
         ELSE @]
  /\ UNCHANGED <<constructed, initialized, invite, metadata, lastEmitMessageLength,
                 effects, readyCalls, candidates, confirms, handshakes, localLog,
                 consumed, merged, view, addWriterCalls, pending, ticks, notes,
                 closed, repeats, regVars>>

\* The order in which exit() and cleanup() release what they own.
ReleaseOrder == <<"pairing", "swarm", "corestore">>

\* exit()'s releases on s: pairing.close(), swarm.destroy(), corestore.close(),
\* each under its internalManaged flag.
ExitReleases(s) ==
  LET owned == SelectSeq(ReleaseOrder, LAMBDA kind : internalManaged[s][kind])
  IN [k \in 1..Len(owned) |->
        [by |-> s, kind |-> owned[k], res |-> resources[s][owned[k]]]]

\* A variant of RoomsAfterClose without the delete.
RoomsAfterClose_Keep(rs, s) == rs

\* The registry's roomClosed listener, `delete this.rooms[roomId]`.
RoomsAfterClose(rs, s) == rs \ {s}

\* A variant of DefersLastRoomClosed without the test of the mapping's size.
DefersLastRoomClosed_NoSizeTest(closing, remaining) == ~closing

\* A variant of DefersLastRoomClosed without the test of closingDown.
DefersLastRoomClosed_NoClosingTest(closing, remaining) == remaining = {}

\* The registry's roomClosed listener, after the delete: lastRoomClosed is
\* deferred unless closingDown is set or sessions remain in the mapping.
DefersLastRoomClosed(closing, remaining) == ~closing /\ remaining = {}

\* exit(), after the farewell append: update, swarm.leave, autobase.close, the
\* release of the internally managed pairing, swarm and corestore, the emit of
\* roomClosed (which runs the registry's listener, if registered) and
\* removeAllListeners.  Appends still in flight on the closed autobase reject.
ExitFinish(s, i) ==
  /\ i \in DOMAIN exitCalls[s]
  /\ exitCalls[s][i].pc = "update"
  /\ closed' = [closed EXCEPT ![s] = TRUE]
  /\ appendQ' = [appendQ EXCEPT ![s] = <<>>]
  /\ exitCalls' = [exitCalls EXCEPT ![s] =
       [k \in DOMAIN @ |-> IF k = i THEN [@[k] EXCEPT !.pc = "done"]
                           ELSE IF @[k].pc = "append" THEN [@[k] EXCEPT !.pc = "failed"]
                           ELSE @[k]]]
  /\ closes' = [closes EXCEPT ![s] = @ \o ExitReleases(s)]
  /\ notes' = [notes EXCEPT ![s] =
       Append(@, [kind |-> "roomClosed", arg |-> Undefined, idx |-> 0])]
  /\ IF listeners[s]
       THEN /\ rooms' = RoomsAfterClose(rooms, s)
            /\ mgrTicks' =
                 IF DefersLastRoomClosed(closingDown, RoomsAfterClose(rooms, s))
                   THEN Append(mgrTicks, [kind |-> "lastRoomClosed", room |-> "none"])
                   ELSE mgrTicks
       ELSE UNCHANGED <<rooms, mgrTicks>>
  /\ listeners' = [listeners EXCEPT ![s] = FALSE]
  /\ UNCHANGED <<constructed, initialized, invite, metadata, lastEmitMessageLength,
                 effects, readyCalls, candidates, confirms, handshakes, localLog,
                 consumed, merged, view, addWriterCalls, pending, ticks, repeats,
                 internalManaged, resources, mgrInternal, mgrResources, sigInstalled,
                 closingDown, cleanupCalls, mgrNotes, negVars,
                 transcriptCalls>>

\* exit() step by step.  ExitFinish above is the run of these steps in which
\* no other continuation comes between the awaits of one call.
\*
\* The place of an awaited call of exit() in the order of its releases: 0 for
\* autobase.close(), k for the release of ReleaseOrder[k].
Place(pc) == IF pc = "close" THEN 0 ELSE CHOOSE k \in 1..3 : ReleaseOrder[k] = pc

\* A variant of NextRelease in which exit() releases nothing.
NextRelease_None(s, k) == 4

\* The next release exit() makes on s after place k: the first later kind
\* whose internalManaged flag is set, or 4 when none is left.
NextRelease(s, k) ==
  IF \E n \in (k + 1)..3 : internalManaged[s][ReleaseOrder[n]]
    THEN CHOOSE n \in (k + 1)..3 :
           /\ internalManaged[s][ReleaseOrder[n]]
           /\ \A m \in (k + 1)..(n - 1) : ~internalManaged[s][ReleaseOrder[m]]
    ELSE 4

\* exit(), when autobase.update() has resolved: swarm.leave and the call of
\* autobase.close(), which is then awaited.  Appends still in flight on the
\* closed autobase reject.
ExitUpdated(s, i) ==
  /\ i \in DOMAIN exitCalls[s]
  /\ exitCalls[s][i].pc = "update"
  /\ closed' = [closed EXCEPT ![s] = TRUE]
  /\ appendQ' = [appendQ EXCEPT ![s] = <<>>]
  /\ exitCalls' = [exitCalls EXCEPT ![s] =
       [k \in DOMAIN @ |-> IF k = i THEN [@[k] EXCEPT !.pc = "close"]
                           ELSE IF @[k].pc = "append" THEN [@[k] EXCEPT !.pc = "failed"]
                           ELSE @[k]]]
  /\ UNCHANGED <<constructed, initialized, invite, metadata, lastEmitMessageLength,
                 effects, readyCalls, candidates, confirms, handshakes, localLog,
                 consumed, merged, view, addWriterCalls, pending, ticks, notes,
                 repeats, regVars>>

\* exit(), when autobase.close() or a release has resolved: the next release
\* under its internalManaged flag is called and awaited; when none is left,
\* roomClosed is emitted (which runs the registry's listener, if registered)
\* and removeAllListeners is called.
ExitAdvance(s, i) ==
  /\ i \in DOMAIN exitCalls[s]
  /\ exitCalls[s][i].pc \in {"close"} \cup Kinds
  /\ LET n == NextRelease(s, Place(exitCalls[s][i].pc))
     IN IF n <= 3
          THEN /\ closes' = [closes EXCEPT ![s] =
                    Append(@, [by |-> s, kind |-> ReleaseOrder[n],
                               res |-> resources[s][ReleaseOrder[n]]])]
               /\ exitCalls' = [exitCalls EXCEPT ![s][i].pc = ReleaseOrder[n]]
               /\ UNCHANGED <<notes, rooms, mgrTicks, listeners>>
          ELSE /\ exitCalls' = [exitCalls EXCEPT ![s][i].pc = "done"]
               /\ notes' = [notes EXCEPT ![s] =
                    Append(@, [kind |-> "roomClosed", arg |-> Undefined, idx |-> 0])]
               /\ IF listeners[s]
                    THEN /\ rooms' = RoomsAfterClose(rooms, s)
                         /\ mgrTicks' =
                              IF DefersLastRoomClosed(closingDown, RoomsAfterClose(rooms, s))
                                THEN Append(mgrTicks, [kind |-> "lastRoomClosed",
                                                       room |-> "none"])
                                ELSE mgrTicks
                    ELSE UNCHANGED <<rooms, mgrTicks>>
               /\ listeners' = [listeners EXCEPT ![s] = FALSE]
               /\ UNCHANGED closes
  /\ UNCHANGED <<constructed, initialized, invite, metadata, lastEmitMessageLength,
                 effects, readyCalls, candidates, confirms, handshakes, appendQ,
                 localLog, consumed, merged, view, addWriterCalls, pending, ticks,
                 repeats, closed, internalManaged, resources, mgrInternal,
                 mgrResources, sigInstalled, closingDown, cleanupCalls, mgrNotes,
                 negVars, transcriptCalls>>

\* ------------------------------------------------------------------ apply
IsControl(value) == "addWriter" \in DOMAIN value

\* value.addWriter.type
HasType(payload) == "type" \in DOMAIN payload

\* A node's value as apply() receives it: the local writer's values are the
\* objects that were appended, a remote writer's values were decoded from json.
Deliver(s, w, e) ==
  IF w # s /\ IsControl(e) THEN [addWriter |-> JsonBuffer(e.addWriter)] ELSE e

\* A variant of ViewAppend that puts the new block first.
ViewAppend_Prepend(v, value) == <<value>> \o v

\* view.append(value)
ViewAppend(v, value) == Append(v, value)

\* A variant of ApplyValue without the `continue` statements of the addWriter
\* branch: control entries fall through to view.append.
ApplyValue_FallThrough(st, value) ==
  IF IsControl(value)
    THEN IF HasType(value.addWriter)
           THEN [st EXCEPT !.view = ViewAppend(@, value)]
           ELSE [view |-> ViewAppend(st.view, value),
                 writers |-> Append(st.writers, value.addWriter)]
    ELSE [st EXCEPT !.view = ViewAppend(@, value)]

\* A variant of ApplyValue without the test of value.addWriter.type: a tagged
\* payload is passed to base.addWriter like an untagged one.
ApplyValue_AdmitTagged(st, value) ==
  IF IsControl(value)
    THEN [st EXCEPT !.writers = Append(@, value.addWriter)]
    ELSE [st EXCEPT !.view = ViewAppend(@, value)]

\* The body of apply's loop for one node value; st = [view, writers], writers
\* being the keys passed to base.addWriter so far.
ApplyValue(st, value) ==
  IF IsControl(value)
    THEN IF HasType(value.addWriter)
           THEN st
           ELSE [st EXCEPT !.writers = Append(@, value.addWriter)]
    ELSE [st EXCEPT !.view = ViewAppend(@, value)]

RECURSIVE ApplyNodes(_, _)
\* apply(nodes, view, base): for (const { value } of nodes) ...
ApplyNodes(nodes, st) ==
  IF nodes = <<>> THEN st
  ELSE ApplyNodes(Tail(nodes), ApplyValue(st, Head(nodes)))

\* The writers whose logs s's base replicates: its own and those it added.
WritersOf(s) ==
  {s} \cup {w \in Sessions : \E k \in DOMAIN addWriterCalls[s] :
                               addWriterCalls[s][k] = LocalKey(w)}

\* The 'append' signal of the view: every registered handler starts, reads
\* view.length - 1 and awaits view.get of that index.
Signal(s, len) ==
  pending[s] \o [k \in 1..effects[s].handlers |-> [idx |-> len]]

\* The merge engine hands apply() the next n nodes of writer w; if the view
\* grew, its 'append' signal fires once.
Apply(s, w, n) ==
  /\ ~closed[s]
  /\ w \in WritersOf(s)
  /\ consumed[s][w] + n <= Len(localLog[w])
  /\ LET nodes == [k \in 1..n |-> Deliver(s, w, localLog[w][consumed[s][w] + k])]
         st == ApplyNodes(nodes, [view |-> view[s], writers |-> addWriterCalls[s]])
     IN /\ Len(st.view) > Len(view[s]) => Len(pending[s]) < MaxPending
        /\ view' = [view EXCEPT ![s] = st.view]
        /\ addWriterCalls' = [addWriterCalls EXCEPT ![s] = st.writers]
        /\ merged' = [merged EXCEPT ![s] = @ \o nodes]
        /\ pending' = [pending EXCEPT ![s] =
             IF Len(st.view) > Len(view[s]) THEN Signal(s, Len(st.view)) ELSE @]
  /\ consumed' = [consumed EXCEPT ![s][w] = @ + n]
  /\ UNCHANGED <<constructed, initialized, invite, metadata, lastEmitMessageLength,
                 effects, readyCalls, candidates, confirms, handshakes, appendQ,
                 localLog, ticks, notes, exitCalls, closed, repeats, regVars>>

\* The 'append' signal fires again although the view has not changed.
RepeatedAppend(s) ==
  /\ ~closed[s]
  /\ view[s] # <<>>
  /\ effects[s].handlers > 0
  /\ Len(pending[s]) < MaxPending
  /\ repeats["h"] + repeats["j"] + repeats["k"] < MaxRepeats
  /\ repeats' = [repeats EXCEPT ![s] = @ + 1]
  /\ pending' = [pending EXCEPT ![s] = Signal(s, Len(view[s]))]
  /\ UNCHANGED <<constructed, initialized, invite, metadata, lastEmitMessageLength,
                 effects, readyCalls, candidates, confirms, handshakes, appendQ,
                 localLog, consumed, merged, view, addWriterCalls, ticks, notes,
                 exitCalls, closed, regVars>>

\* ------------------------------------------------------ the 'append' handler
\* A variant of OnAppend without the test of entry.who.
OnAppend_NoWhoTest(entry, who, last, len) ==
  IF IsLeftChat(entry) THEN "peerLeft"
  ELSE IF last = len THEN "none"
  ELSE "message"

\* A variant of OnAppend without the test of entry.event.
OnAppend_NoEventTest(entry, who, last, len) ==
  IF entry.who = who THEN "none"
  ELSE IF last = len THEN "none"
  ELSE "message"

\* The handler's decision once view.get has resolved with entry: who is
\* metadata.who, last is lastEmitMessageLength, len is the view's length now.
OnAppend(entry, who, last, len) ==
  IF entry.who = who THEN "none"
  ELSE IF IsLeftChat(entry) THEN "peerLeft"
  ELSE IF last = len THEN "none"
  ELSE "message"

\* A handler run resumes with the entry it asked for.
HandlerResume(s, i) ==
  /\ i \in DOMAIN pending[s]
  /\ LET idx == pending[s][i].idx
         entry == view[s][idx]
         out == OnAppend(entry, metadata[s].who, lastEmitMessageLength[s], Len(view[s]))
     IN /\ notes' = [notes EXCEPT ![s] =
             IF out = "peerLeft"
               THEN Append(@, [kind |-> "peerLeft", arg |-> entry.who, idx |-> idx])
               ELSE @]
        /\ lastEmitMessageLength' = [lastEmitMessageLength EXCEPT ![s] =
             IF out = "message" THEN Len(view[s]) ELSE @]
        /\ ticks' = [ticks EXCEPT ![s] =
             IF out = "message" THEN Append(@, [entry |-> entry, idx |-> idx]) ELSE @]
  /\ pending' = [pending EXCEPT ![s] = RemoveAt(@, i)]
  /\ UNCHANGED <<constructed, initialized, invite, metadata, effects, readyCalls,
                 candidates, confirms, handshakes, appendQ, localLog, consumed,
                 merged, view, addWriterCalls, exitCalls, closed, repeats, regVars>>

\* process.nextTick(() => this.emit('message', entry))
Tick(s) ==
  /\ ticks[s] # <<>>
  /\ ticks' = [ticks EXCEPT ![s] = Tail(@)]
  /\ notes' = [notes EXCEPT ![s] =
       Append(@, [kind |-> "message", arg |-> Head(ticks[s]).entry,
                  idx |-> Head(ticks[s]).idx])]
  /\ UNCHANGED <<constructed, initialized, invite, metadata, lastEmitMessageLength,
                 effects, readyCalls, candidates, confirms, handshakes, appendQ,
                 localLog, consumed, merged, view, addWriterCalls, pending,
                 exitCalls, closed, repeats, regVars>>

\* ---------------------------------------------------------- getTranscript
\* What no step of getTranscript() changes.
readFrame == <<constructed, initialized, invite, metadata, lastEmitMessageLength,
               effects, readyCalls, candidates, confirms, handshakes, appendQ,
               localLog, consumed, merged, view, addWriterCalls, pending, ticks,
               notes, exitCalls, repeats, closed, mgrVars, ownVars, negVars>>

\* A variant of More that tests i against the length the view had when the
\* loop was entered.
More_AtStart(call, v) == call.i < call.len0

\* The loop test of getTranscript, `i < this.autobase.view.length`: the length
\* is read anew at every test; v is the view now.
More(call, v) == call.i < Len(v)

\* transcript.push(await this.autobase.view.get(i)): view.get(i) is block
\* number i, counted from 0.
Pushed(call, v) == Append(call.transcript, v[call.i + 1])

\* The loop from its test on: the next view.get is awaited or the transcript is
\* returned.
Looping(call, v) == [call EXCEPT !.pc = IF More(call, v) THEN "get" ELSE "done"]

\* getTranscript() entered on s, up to `await this.autobase.update()`.
TranscriptCall(s) ==
  /\ IsReady(s)
  /\ Len(transcriptCalls[s]) < MaxReads
  /\ transcriptCalls' = [transcriptCalls EXCEPT ![s] =
       Append(@, [pc |-> "update", i |-> 0, transcript |-> <<>>, len0 |-> 0])]
  /\ UNCHANGED readFrame

\* autobase.update() has resolved (on a closed base it rejects and the call
\* throws): the loop is entered; len0 notes the length the view has then.
TranscriptUpdated(s, c) ==
  /\ c \in DOMAIN transcriptCalls[s]
  /\ transcriptCalls[s][c].pc = "update"
  /\ transcriptCalls' = [transcriptCalls EXCEPT ![s][c] =
       IF closed[s] THEN [@ EXCEPT !.pc = "failed"]
       ELSE Looping([@ EXCEPT !.len0 = Len(view[s])], view[s])]
  /\ UNCHANGED readFrame

\* view.get(i) has resolved (on a closed view it rejects and the call throws):
\* the block is pushed, i is incremented and the loop test runs again.
TranscriptGet(s, c) ==
  /\ c \in DOMAIN transcriptCalls[s]
  /\ transcriptCalls[s][c].pc = "get"
  /\ transcriptCalls' = [transcriptCalls EXCEPT ![s][c] =
       IF closed[s] THEN [@ EXCEPT !.pc = "failed"]
       ELSE Looping([@ EXCEPT !.transcript = Pushed(transcriptCalls[s][c], view[s]),
                              !.i = @ + 1],
                    view[s])]
  /\ UNCHANGED readFrame

\* --------------------------------------------------------------- registry
\* createRoom(opts): a session with a fresh room identifier (the identifier
\* stands for the session s it names), built on the registry's resources,
\* tracked in this.rooms, with the roomClosed listener registered and the emit
\* of newRoom deferred.  opt is opts.invite (a text) or Undefined.
CreateRoom(s, opt) ==
  /\ ~constructed[s]
  /\ constructed' = [constructed EXCEPT ![s] = TRUE]
  /\ invite' = [invite EXCEPT ![s] = IF opt = Undefined THEN Undefined ELSE Z32Decode(opt)]
  /\ internalManaged' = [internalManaged EXCEPT ![s] = InternalManaged(RoomOptions)]
  /\ resources' = [resources EXCEPT ![s] = Held(s, RoomOptions, mgrResources)]
  /\ rooms' = rooms \cup {s}
  /\ listeners' = [listeners EXCEPT ![s] = TRUE]
  /\ mgrTicks' = Append(mgrTicks, [kind |-> "newRoom", room |-> s])
  /\ UNCHANGED <<initialized, metadata, lastEmitMessageLength, effects, readyCalls,
                 candidates, confirms, handshakes, appendQ, localLog, consumed,
                 merged, view, addWriterCalls, pending, ticks, notes, exitCalls,
                 closed, repeats, closes, mgrInternal, mgrResources, sigInstalled,
                 closingDown, cleanupCalls, mgrNotes, negVars,
                 transcriptCalls>>

\* process.nextTick(() => this.emit(...)) of the registry.
MgrTick ==
  /\ mgrTicks # <<>>
  /\ mgrTicks' = Tail(mgrTicks)
  /\ mgrNotes' = Append(mgrNotes, Head(mgrTicks))
  /\ UNCHANGED <<constructed, initialized, invite, metadata, lastEmitMessageLength,
                 effects, readyCalls, candidates, confirms, handshakes, appendQ,
                 localLog, consumed, merged, view, addWriterCalls, pending, ticks,
                 notes, exitCalls, closed, repeats, ownVars, rooms, mgrInternal,
                 mgrResources, sigInstalled, closingDown, cleanupCalls, negVars,
                 transcriptCalls>>

\* installSIGHandlers(): closingDown = false, the hook is registered.
InstallSIGHandlers ==
  /\ ~sigInstalled
  /\ sigInstalled' = TRUE
  /\ closingDown' = FALSE
  /\ UNCHANGED <<constructed, initialized, invite, metadata, lastEmitMessageLength,
                 effects, readyCalls, candidates, confirms, handshakes, appendQ,
                 localLog, consumed, merged, view, addWriterCalls, pending, ticks,
                 notes, exitCalls, closed, repeats, ownVars, rooms, mgrInternal,
                 mgrResources, cleanupCalls, mgrTicks, mgrNotes, negVars,
                 transcriptCalls>>

\* The property names cleanup() reads for the three releases, in order.
CleanupReads == <<"pairing", "swarm", "corestere">>

\* this.internalManaged[name]: a property that does not exist reads as
\* undefined, which is falsy.
MgrFlag(name) == name \in DOMAIN mgrInternal /\ mgrInternal[name]

\* The next release cleanup() makes after stage k (0: none made yet): the first
\* stage whose flag reads true, or 4 when none is left.
NextStage(k) ==
  IF \E n \in (k + 1)..3 : MgrFlag(CleanupReads[n])
    THEN CHOOSE n \in (k + 1)..3 :
           /\ MgrFlag(CleanupReads[n])
           /\ \A m \in (k + 1)..(n - 1) : ~MgrFlag(CleanupReads[m])
    ELSE 4

\* cleanup() running on from stage k to its next await or its return: the
\* close/destroy call of the next stage is made, then awaited.
CleanupAdvance(call, k) ==
  IF NextStage(k) = 4 THEN [call EXCEPT !.pc = "done", !.stage = 4]
  ELSE [call EXCEPT !.pc = "release", !.stage = NextStage(k)]

ClosesAfterStage(k) ==
  IF NextStage(k) = 4 THEN closes
  ELSE [closes EXCEPT !["mgr"] =
          Append(@, [by |-> "mgr", kind |-> ReleaseOrder[NextStage(k)],
                     res |-> mgrResources[ReleaseOrder[NextStage(k)]]])]

\* A variant of ExitsOf in which cleanup() awaits none of its exit() calls.
ExitsOf_None(n) == {}

\* The exit() calls that cleanup() call number n made and awaits.
ExitsOf(n) ==
  {c \in UNION {{exitCalls[s][k] : k \in DOMAIN exitCalls[s]} : s \in Sessions} :
     c.from = n}

\* cleanup(), up to its first await: exit() is called on every session in
\* this.rooms.  Called directly (sig = FALSE) or by the signal hook, which
\* first sets closingDown (sig = TRUE).
CleanupCall(sig) ==
  /\ Len(cleanupCalls) < MaxCleanups
  /\ sig => sigInstalled
  /\ closingDown' = (closingDown \/ sig)
  /\ cleanupCalls' = Append(cleanupCalls, [pc |-> "exits", stage |-> 0, signal |-> sig])
  /\ exitCalls' = [s \in Sessions |->
       IF s \in rooms THEN ExitCallsAfter(s, Len(cleanupCalls) + 1) ELSE exitCalls[s]]
  /\ appendQ' = [s \in Sessions |->
       IF s \in rooms THEN AppendQAfterExit(s) ELSE appendQ[s]]
  /\ UNCHANGED <<constructed, initialized, invite, metadata, lastEmitMessageLength,
                 effects, readyCalls, candidates, confirms, handshakes, localLog,
                 consumed, merged, view, addWriterCalls, pending, ticks, notes,
                 closed, repeats, ownVars, rooms, mgrInternal, mgrResources,
                 sigInstalled, mgrTicks, mgrNotes, negVars,
                 transcriptCalls>>

\* cleanup(): Promise.all rejects because one of the exit() calls threw.
CleanupRejected(n) ==
  /\ n \in DOMAIN cleanupCalls
  /\ cleanupCalls[n].pc = "exits"
  /\ \E c \in ExitsOf(n) : c.pc = "failed"
  /\ cleanupCalls' = [cleanupCalls EXCEPT ![n].pc = "failed"]
  /\ UNCHANGED <<constructed, initialized, invite, metadata, lastEmitMessageLength,
                 effects, readyCalls, candidates, confirms, handshakes, appendQ,
                 localLog, consumed, merged, view, addWriterCalls, pending, ticks,
                 notes, exitCalls, closed, repeats, ownVars, rooms, mgrInternal,
                 mgrResources, sigInstalled, closingDown, mgrTicks, mgrNotes, negVars,
                 transcriptCalls>>

\* cleanup(), after Promise.all of the exits resolved: this.rooms = {}, then
\* the first release whose flag reads true.
CleanupAfterExits(n) ==
  /\ n \in DOMAIN cleanupCalls
  /\ cleanupCalls[n].pc = "exits"
  /\ \A c \in ExitsOf(n) : c.pc = "done"
  /\ rooms' = {}
  /\ cleanupCalls' = [cleanupCalls EXCEPT ![n] = CleanupAdvance(@, 0)]
  /\ closes' = ClosesAfterStage(0)
  /\ UNCHANGED <<constructed, initialized, invite, metadata, lastEmitMessageLength,
                 effects, readyCalls, candidates, confirms, handshakes, appendQ,
                 localLog, consumed, merged, view, addWriterCalls, pending, ticks,
                 notes, exitCalls, closed, repeats, internalManaged, resources,
                 listeners, mgrInternal, mgrResources, sigInstalled, closingDown,
                 mgrTicks, mgrNotes, negVars,
                 transcriptCalls>>

\* cleanup(), after the awaited close/destroy of a stage resolved: the next
\* release, or the return.
CleanupRelease(n) ==
  /\ n \in DOMAIN cleanupCalls
  /\ cleanupCalls[n].pc = "release"
  /\ cleanupCalls' = [cleanupCalls EXCEPT ![n] = CleanupAdvance(@, @.stage)]
  /\ closes' = ClosesAfterStage(cleanupCalls[n].stage)
  /\ UNCHANGED <<constructed, initialized, invite, metadata, lastEmitMessageLength,
                 effects, readyCalls, candidates, confirms, handshakes, appendQ,
                 localLog, consumed, merged, view, addWriterCalls, pending, ticks,
                 notes, exitCalls, closed, repeats, internalManaged, resources,
                 listeners, rooms, mgrInternal, mgrResources, sigInstalled,
                 closingDown, mgrTicks, mgrNotes, negVars,
                 transcriptCalls>>

\* The signal hook ran to its end: process.exit(0) after its cleanup returned.
Terminated ==
  \E n \in DOMAIN cleanupCalls : cleanupCalls[n].signal /\ cleanupCalls[n].pc = "done"

\* The sessions the registry creates.
RegistryRooms == {"h", "j"}

\* ------------------------------------------------------------- negotiator
\* Everything but the registry mapping, the sessions createReadyRoom makes and
\* the negotiator's calls and challenges: what no negotiator step changes.
negFrame == <<metadata, lastEmitMessageLength, effects, candidates, confirms,
              handshakes, appendQ, localLog, consumed, merged, view,
              addWriterCalls, pending, ticks, notes, exitCalls, repeats, closed,
              closes, mgrInternal, mgrResources, sigInstalled, closingDown,
              cleanupCalls, mgrNotes, transcriptCalls>>

\* What createRoom and the first ready() write.
createdVars == <<constructed, invite, internalManaged, resources, rooms,
                 listeners, mgrTicks, initialized, readyCalls>>

\* generateChallengeText(): a fresh text each time; n numbers the texts
\* generated so far.
Nonce(n) == [nonce |-> n]

\* The challenge texts generated so far (the expectations that carried them
\* have been returned).
Generated ==
  Len(SelectSeq(expectationCalls,
        LAMBDA c : c.pc = "done" /\ c.result.challengeText # Undefined))

\* startAgreeable(config, expectations, validateParticipant): the two handlers
\* close over the expectations and the hook (hook: one was given).
StartAgreeable(exp, hook) ==
  /\ expectations = Undefined
  /\ expectations' = exp
  /\ validateParticipant' = hook
  /\ UNCHANGED <<negFrame, createdVars, challengeTexts, newRoomCalls,
                 expectationCalls>>

\* roomExpectations(query, { remotePublicKey }) running on from the signing
\* of the remote's challenge: returns the copy when the policy does not
\* require identity proof, else awaits generateChallengeText().
AfterSign(call) ==
  IF ~expectations.whoamiRequired THEN [call EXCEPT !.pc = "done"]
  ELSE [call EXCEPT !.pc = "generate"]

\* roomExpectations, up to its first await: structuredClone(expectations),
\* then signText when the query carries a challengeText (asks: it does).
ExpectationsCall(key, asks) ==
  /\ expectations # Undefined
  /\ Len(expectationCalls) < MaxChallenges
  /\ LET call == [key |-> key, pc |-> "sign",
                  result |-> [copy |-> expectations, signed |-> FALSE,
                              challengeText |-> Undefined]]
     IN expectationCalls' = Append(expectationCalls, IF asks THEN call ELSE AfterSign(call))
  /\ UNCHANGED <<negFrame, createdVars, expectations, validateParticipant,
                 challengeTexts, newRoomCalls>>

\* roomExpectations, after signText settled: the signed response is put under
\* whoami.keybase of the copy (ok), or the failure is logged and swallowed.
ExpectationsSigned(n, ok) ==
  /\ n \in DOMAIN expectationCalls
  /\ expectationCalls[n].pc = "sign"
  /\ expectationCalls' = [expectationCalls EXCEPT ![n] = AfterSign([@ EXCEPT !.result.signed = ok])]
  /\ UNCHANGED <<negFrame, createdVars, expectations, validateParticipant,
                 challengeTexts, newRoomCalls>>

\* A variant of ChallengesAfter that records nothing.
ChallengesAfter_Unrecorded(texts, key, text) == texts

\* A variant of ChallengesAfter that records the text for every key.
ChallengesAfter_AllKeys(texts, key, text) == [k \in DOMAIN texts |-> text]

\* A variant of ChallengesAfter that keeps a challenge already recorded for
\* the key.
ChallengesAfter_KeepFirst(texts, key, text) ==
  IF texts[key] = Undefined THEN [texts EXCEPT ![key] = text] ELSE texts

\* this.challengeTexts[remotePublicKey] = challengeText
ChallengesAfter(texts, key, text) == [texts EXCEPT ![key] = text]

\* A variant of ConfiguredAfter in which the handler works on the configured
\* object itself instead of a clone.
ConfiguredAfter_NoClone(exp, text) ==
  [whoamiRequired |-> exp.whoamiRequired, challengeText |-> text]

\* The host's configured expectations after `_expectations.challengeText =
\* challengeText`: _expectations is the structuredClone made on entry, so the
\* write does not reach the configured object.
ConfiguredAfter(exp, text) == exp

\* roomExpectations, after generateChallengeText() resolved: the text is
\* recorded for the remote's key, put into the copy, and the copy returned.
ExpectationsGenerated(n) ==
  /\ n \in DOMAIN expectationCalls
  /\ expectationCalls[n].pc = "generate"
  /\ challengeTexts' = ChallengesAfter(challengeTexts, expectationCalls[n].key, Nonce(Generated + 1))
  /\ expectationCalls' = [expectationCalls EXCEPT ![n] =
       [@ EXCEPT !.pc = "done", !.result.challengeText = Nonce(Generated + 1)]]
  /\ expectations' = ConfiguredAfter(expectations, Nonce(Generated + 1))
  /\ UNCHANGED <<negFrame, createdVars, validateParticipant, newRoomCalls>>

\* The shape of an agreement (the acceptance a remote sends with newRoom).
HasWhoami(a) == "whoami" \in DOMAIN a

HasKeybase(a) == "keybase" \in DOMAIN a.whoami

HasUsername(a) == "username" \in DOMAIN a.whoami.keybase

HasResponse(a) == "challengeResponse" \in DOMAIN a.whoami.keybase

\* agreement.whoami.keybase.challengeResponse.text (undefined when absent).
ResponseText(a) ==
  IF "text" \in DOMAIN a.whoami.keybase.challengeResponse
    THEN a.whoami.keybase.challengeResponse.text
    ELSE Undefined

Outcome(kind, reason) == [kind |-> kind, reason |-> reason]

\* A variant of NewRoomChecks without the comparison of the challenge text.
NewRoomChecks_NoCompare(required, expected, a) ==
  IF ~required THEN Outcome("pass", "")
  ELSE IF ~HasWhoami(a) THEN Outcome("reject", "whoami requested and not provided")
  ELSE IF HasKeybase(a)
    THEN IF ~HasUsername(a) THEN Outcome("throw", "participant username was not returned")
         ELSE IF ~HasResponse(a) THEN Outcome("throw", "TypeError")
         ELSE Outcome("verify", "")
  ELSE Outcome("reject", "participant did not provide any known whoami response")

\* newRoom(agreement, { remotePublicKey }), up to its first await: the whoami
\* checks.  required is expectations.whoamiRequired, expected is
\* this.challengeTexts[remotePublicKey].  Reading .text of a challengeResponse
\* that is not there raises a TypeError.
NewRoomChecks(required, expected, a) ==
  IF ~required THEN Outcome("pass", "")
  ELSE IF ~HasWhoami(a) THEN Outcome("reject", "whoami requested and not provided")
  ELSE IF HasKeybase(a)
    THEN IF ~HasUsername(a) THEN Outcome("throw", "participant username was not returned")
         ELSE IF ~HasResponse(a) THEN Outcome("throw", "TypeError")
         ELSE IF expected # ResponseText(a)
           THEN Outcome("reject", "challengeText was modified")
         ELSE Outcome("verify", "")
  ELSE Outcome("reject", "participant did not provide any known whoami response")

\* The newRoom calls with call as entry n (n = Len + 1: a new call).
Put(n, call) ==
  IF n = Len(newRoomCalls) + 1 THEN Append(newRoomCalls, call)
  ELSE [newRoomCalls EXCEPT ![n] = call]

\* createReadyRoom(), up to its await: createRoom() with no options makes the
\* session s on the registry's resources, tracks it and defers newRoom; then
\* room.ready() runs to its first await.
CreateReadyRoom(s) ==
  /\ ~constructed[s]
  /\ constructed' = [constructed EXCEPT ![s] = TRUE]
  /\ invite' = [invite EXCEPT ![s] = Undefined]
  /\ internalManaged' = [internalManaged EXCEPT ![s] = InternalManaged(RoomOptions)]
  /\ resources' = [resources EXCEPT ![s] = Held(s, RoomOptions, mgrResources)]
  /\ rooms' = rooms \cup {s}
  /\ listeners' = [listeners EXCEPT ![s] = TRUE]
  /\ mgrTicks' = Append(mgrTicks, [kind |-> "newRoom", room |-> s])
  /\ initialized' = [initialized EXCEPT ![s] = TRUE]
  /\ readyCalls' = [readyCalls EXCEPT ![s] =
       <<[pc |-> "base", ret |-> Undefined, late |-> FALSE]>>]

\* A variant of HookGiven in which the hook is never consulted.
HookGiven_Never == FALSE

\* if (validateParticipant)
HookGiven == validateParticipant

\* generateRoomId() in createRoom: an identifier no room has had; it stands
\* for the next session object not yet made.
FreshRoom(s) ==
  /\ s \in RegistryRooms
  /\ ~constructed[s]
  /\ s = "j" => constructed["h"]

\* A variant of AfterChecks that makes the room before it consults the hook.
AfterChecks_RoomFirst(n, call) ==
  \E s \in RegistryRooms :
    /\ FreshRoom(s)
    /\ CreateReadyRoom(s)
    /\ newRoomCalls' = Put(n, [call EXCEPT !.pc = IF HookGiven THEN "validate" ELSE "ready",
                                         !.room = s])

\* newRoom, once the whoami checks are behind it: the validation hook is
\* called and awaited when one was given, else createReadyRoom() is called.
AfterChecks(n, call) ==
  IF HookGiven
    THEN /\ newRoomCalls' = Put(n, [call EXCEPT !.pc = "validate"])
         /\ UNCHANGED createdVars
    ELSE \E s \in RegistryRooms :
           /\ FreshRoom(s)
           /\ CreateReadyRoom(s)
           /\ newRoomCalls' = Put(n, [call EXCEPT !.pc = "ready", !.room = s])

\* A remote calls newRoom with agreement a.
NewRoomCall(key, a) ==
  /\ expectations # Undefined
  /\ Len(newRoomCalls) < MaxNewRooms
  /\ LET out == NewRoomChecks(expectations.whoamiRequired, challengeTexts[key], a)
         call == [key |-> key, agreement |-> a, pc |-> "checks",
                  details |-> [remotePublicKey |-> key], result |-> Undefined,
                  room |-> "none"]
         n == Len(newRoomCalls) + 1
     IN CASE out.kind = "reject" ->
               /\ newRoomCalls' = Put(n, [call EXCEPT !.pc = "done",
                                          !.result = [ok |-> FALSE, reason |-> out.reason]])
               /\ UNCHANGED createdVars
          [] out.kind = "throw" ->
               /\ newRoomCalls' = Put(n, [call EXCEPT !.pc = "threw",
                                          !.result = [threw |-> out.reason]])
               /\ UNCHANGED createdVars
          [] out.kind = "verify" ->
               /\ newRoomCalls' = Put(n, [call EXCEPT !.pc = "verify",
                    !.details = [remotePublicKey |-> key,
                                 whoami |-> [keybase |->
                                   [username |-> a.whoami.keybase.username]]]])
               /\ UNCHANGED createdVars
          [] out.kind = "pass" -> AfterChecks(n, call)
  /\ UNCHANGED <<negFrame, expectations, validateParticipant, challengeTexts,
                 expectationCalls>>

\* newRoom, after verifySignedText settled with v: verified is recorded and
\* getKeybaseProofChain awaited.
NewRoomVerified(n, v) ==
  /\ n \in DOMAIN newRoomCalls
  /\ newRoomCalls[n].pc = "verify"
  /\ newRoomCalls' = [newRoomCalls EXCEPT ![n] =
       [@ EXCEPT !.pc = "chain",
                 !.details = [remotePublicKey |-> @.remotePublicKey,
                              whoami |-> [keybase |->
                                [username |-> @.whoami.keybase.username,
                                 verified |-> v]]]]]
  /\ UNCHANGED <<negFrame, createdVars, expectations, validateParticipant,
                 challengeTexts, expectationCalls>>

\* newRoom, after getKeybaseProofChain resolved: participantDetails.whoami is
\* set, so the request goes on to the hook or to the room.
NewRoomChain(n) ==
  /\ n \in DOMAIN newRoomCalls
  /\ newRoomCalls[n].pc = "chain"
  /\ AfterChecks(n, newRoomCalls[n])
  /\ UNCHANGED <<negFrame, expectations, validateParticipant, challengeTexts,
                 expectationCalls>>

\* newRoom, after the validation hook resolved with { ok } (and its reason).
NewRoomValidated(n, ok) ==
  /\ n \in DOMAIN newRoomCalls
  /\ newRoomCalls[n].pc = "validate"
  /\ IF ok
       THEN \E s \in RegistryRooms :
              /\ FreshRoom(s)
              /\ CreateReadyRoom(s)
              /\ newRoomCalls' = [newRoomCalls EXCEPT ![n] =
                   [@ EXCEPT !.pc = "ready", !.room = s]]
       ELSE /\ newRoomCalls' = [newRoomCalls EXCEPT ![n] =
                 [@ EXCEPT !.pc = "done",
                           !.result = [ok |-> FALSE, reason |-> "hook's reason"]]]
            /\ UNCHANGED createdVars
  /\ UNCHANGED <<negFrame, expectations, validateParticipant, challengeTexts,
                 expectationCalls>>

\* createReadyRoom(), after room.ready() returned: readyRoom is deferred and
\* the invite returned; newRoom returns { ok: true, invite }.
NewRoomReturn(n) ==
  /\ n \in DOMAIN newRoomCalls
  /\ newRoomCalls[n].pc = "ready"
  /\ readyCalls[newRoomCalls[n].room][1].pc = "done"
  /\ mgrTicks' = Append(mgrTicks, [kind |-> "readyRoom", room |-> newRoomCalls[n].room])
  /\ newRoomCalls' = [newRoomCalls EXCEPT ![n] =
       [@ EXCEPT !.pc = "done",
                 !.result = [ok |-> TRUE, invite |-> readyCalls[newRoomCalls[n].room][1].ret]]]
  /\ UNCHANGED <<negFrame, constructed, invite, internalManaged, resources, rooms,
                 listeners, initialized, readyCalls, expectations,
                 validateParticipant, challengeTexts,
                 expectationCalls>>

\* The texts a remote can put into a challengeResponse: the challenges issued
\* so far (to it or to another key) and one that was never issued.
Texts == {Nonce(n) : n \in 0..Generated}

Keybase(fields) == [accept |-> TRUE, whoami |-> [keybase |-> fields]]

\* The agreements a remote can send: without whoami, with a whoami that is
\* not a keybase claim, with a keybase claim lacking its username or its
\* challengeResponse, with a challengeResponse that carries no text, and with
\* a complete keybase claim carrying any text.
Agreements ==
  {[accept |-> TRUE],
   [accept |-> TRUE, whoami |-> [other |-> "claim"]],
   Keybase([challengeResponse |-> [text |-> Nonce(0)]]),
   Keybase([username |-> "u"]),
   Keybase([username |-> "u", challengeResponse |-> [signature |-> "sig"]])}
  \cup {Keybase([username |-> "u", challengeResponse |-> [text |-> t]]) : t \in Texts}

\* ----------------------------------------------------------- specifications
Data == {"hi"}

\* exit() calls on one session: the callers' and one per cleanup() call.
MaxExits == MaxExitCalls + MaxCleanups

\* The whole system: every call, callback and engine step, freely interleaved.

Next ==
  \/ \E s \in Sessions, t \in InviteTexts : Construct(s, t)
  \/ \E s \in Sessions : ReadyCall(s)
  \/ \E s \in Sessions, i \in 1..MaxReadyCalls : ReadyAfterBase(s, i)
  \/ \E s \in Sessions, i \in 1..MaxReadyCalls : ReadyJoinerReturn(s, i)
  \/ \E s \in Sessions, i \in 1..MaxReadyCalls : ReadyHostReturn(s, i)
  \/ \E s \in Sessions, c \in candidates : OnAddMember(s, c)
  \/ \E s \in Sessions : OnHostInvite(s)
  \/ \E s \in Sessions, d \in Data : Message(s, d)
  \/ \E s \in Sessions : IsReady(s) /\ ExitCall(s)
  \/ \E s \in Sessions : AppendDone(s)
  \/ \E s \in Sessions : AppendFails(s)
  \/ \E s \in Sessions, i \in 1..MaxExits : ExitFinish(s, i)
  \/ \E s \in Sessions, i \in 1..MaxExits : ExitUpdated(s, i)
  \/ \E s \in Sessions, i \in 1..MaxExits : ExitAdvance(s, i)
  \/ \E s \in Sessions, w \in Sessions, n \in 1..MaxBatch : Apply(s, w, n)
  \/ \E s \in Sessions : RepeatedAppend(s)
  \/ \E s \in Sessions, i \in 1..MaxPending : HandlerResume(s, i)
  \/ \E s \in Sessions : Tick(s)
  \/ \E s \in Sessions : TranscriptCall(s)
  \/ \E s \in Sessions, c \in 1..MaxReads : TranscriptUpdated(s, c)
  \/ \E s \in Sessions, c \in 1..MaxReads : TranscriptGet(s, c)
  \/ \E s \in Sessions, opt \in InviteTexts \cup {Undefined} : CreateRoom(s, opt)
  \/ MgrTick
  \/ InstallSIGHandlers
  \/ \E sig \in BOOLEAN : CleanupCall(sig)
  \/ \E n \in 1..MaxCleanups : CleanupRejected(n)
  \/ \E n \in 1..MaxCleanups : CleanupAfterExits(n)
  \/ \E n \in 1..MaxCleanups : CleanupRelease(n)

Spec == Init /\ [][Next]_vars

\* ready() and the pairing handshake: any number of ready() calls (up to the
\* bound) and one exit() per session, without messages and without the merge
\* engine.
NextReady ==
  \/ \E t \in InviteTexts : Construct("j", t)
  \/ \E s \in Sessions : ReadyCall(s)
  \/ \E s \in Sessions, i \in 1..MaxReadyCalls : ReadyAfterBase(s, i)
  \/ \E s \in Sessions, i \in 1..MaxReadyCalls : ReadyJoinerReturn(s, i)
  \/ \E s \in Sessions, i \in 1..MaxReadyCalls : ReadyHostReturn(s, i)
  \/ \E s \in Sessions, c \in candidates : OnAddMember(s, c)
  \/ \E s \in Sessions : OnHostInvite(s)
  \/ \E s \in Sessions : IsReady(s) /\ exitCalls[s] = <<>> /\ ExitCall(s)
  \/ \E s \in Sessions : AppendDone(s)
  \/ \E s \in Sessions, i \in 1..MaxExits : ExitFinish(s, i)

SpecReady == Init /\ [][NextReady]_vars

\* Repeated exit(): host and joiner each call ready() once, pair, and call
\* exit() any number of times (up to the bound), overlapping or one after the
\* other.
NextExit ==
  \/ \E t \in InviteTexts : Construct("j", t)
  \/ \E s \in Sessions : readyCalls[s] = <<>> /\ ReadyCall(s)
  \/ \E s \in Sessions, i \in 1..MaxReadyCalls : ReadyAfterBase(s, i)
  \/ \E s \in Sessions, i \in 1..MaxReadyCalls : ReadyJoinerReturn(s, i)
  \/ \E s \in Sessions, i \in 1..MaxReadyCalls : ReadyHostReturn(s, i)
  \/ \E s \in Sessions, c \in candidates : OnAddMember(s, c)
  \/ \E s \in Sessions : OnHostInvite(s)
  \/ \E s \in Sessions : IsReady(s) /\ ExitCall(s)
  \/ \E s \in Sessions : AppendDone(s)
  \/ \E s \in Sessions, i \in 1..MaxExits : ExitFinish(s, i)

SpecExit == Init /\ [][NextExit]_vars

\* Host and joiner have both applied the admission of the other one.
Paired == \A s \in {"h", "j"} : Len(addWriterCalls[s]) = 1

\* No session other than s has materialized a data entry.
OnlyViewer(s) == \A t \in Sessions \ {s} : view[t] = <<>>

\* The view materializer: every action of the system, in the runs in which
\* each session's ready() and exit() are called once, callers send and exit
\* once both sides are paired, one session's merge engine delivers data
\* entries (the first to do so; the other session's engine lags), and the
\* 'append' signal fires again only while no handler run or deferred emit is
\* outstanding.
NextView ==
  \/ \E t \in InviteTexts : Construct("j", t)
  \/ \E s \in Sessions : readyCalls[s] = <<>> /\ ReadyCall(s)
  \/ \E s \in Sessions, i \in 1..MaxReadyCalls : ReadyAfterBase(s, i)
  \/ \E s \in Sessions, i \in 1..MaxReadyCalls : ReadyJoinerReturn(s, i)
  \/ \E s \in Sessions, i \in 1..MaxReadyCalls : ReadyHostReturn(s, i)
  \/ \E s \in Sessions, c \in candidates : OnAddMember(s, c)
  \/ \E s \in Sessions : OnHostInvite(s)
  \/ \E s \in Sessions, d \in Data : Paired /\ Message(s, d)
  \/ \E s \in Sessions : Paired /\ IsReady(s) /\ exitCalls[s] = <<>> /\ ExitCall(s)
  \/ \E s \in Sessions : AppendDone(s)
  \/ \E s \in Sessions, i \in 1..MaxExits : ExitFinish(s, i)
  \/ \E s \in Sessions, w \in Sessions, n \in 1..MaxBatch :
       OnlyViewer(s) /\ Apply(s, w, n)
  \/ \E s \in Sessions : pending[s] = <<>> /\ ticks[s] = <<>> /\ RepeatedAppend(s)
  \/ \E s \in Sessions, i \in 1..MaxPending : HandlerResume(s, i)
  \/ \E s \in Sessions : Tick(s)

SpecView == Init /\ [][NextView]_vars

\* One invite, two joiners: the host's ready() returns the invite text, both
\* joiners are constructed with it and each calls ready() once.
NextInvite ==
  \/ \E s \in {"j", "k"}, t \in InviteTexts : Construct(s, t)
  \/ \E s \in Sessions : readyCalls[s] = <<>> /\ ReadyCall(s)
  \/ \E s \in Sessions, i \in 1..MaxReadyCalls : ReadyAfterBase(s, i)
  \/ \E s \in Sessions, i \in 1..MaxReadyCalls : ReadyJoinerReturn(s, i)
  \/ \E s \in Sessions, i \in 1..MaxReadyCalls : ReadyHostReturn(s, i)
  \/ \E s \in Sessions, c \in candidates : OnAddMember(s, c)
  \/ \E s \in Sessions : OnHostInvite(s)
  \/ \E s \in Sessions : AppendDone(s)

SpecInvite == Init /\ [][NextInvite]_vars

\* The registry: rooms are created without an invite and exited by their
\* callers (once each) and by cleanup(), called once, directly or by the
\* signal hook; everything stops when the hook has called process.exit.
NextRegistry ==
  \/ ~Terminated /\ \E s \in RegistryRooms : CreateRoom(s, Undefined)
  \/ ~Terminated /\ MgrTick
  \/ ~Terminated /\ InstallSIGHandlers
  \/ ~Terminated /\ \E sig \in BOOLEAN : cleanupCalls = <<>> /\ CleanupCall(sig)
  \/ ~Terminated /\ \E n \in 1..MaxCleanups : CleanupRejected(n)
  \/ ~Terminated /\ \E n \in 1..MaxCleanups : CleanupAfterExits(n)
  \/ ~Terminated /\ \E n \in 1..MaxCleanups : CleanupRelease(n)
  \/ ~Terminated /\ \E s \in Sessions : CallerExits(s) = 0 /\ ExitCall(s)
  \/ ~Terminated /\ \E s \in Sessions : AppendDone(s)
  \/ ~Terminated /\ \E s \in Sessions, i \in 1..MaxExits : ExitFinish(s, i)

SpecRegistry == InitRegistry /\ [][NextRegistry]_vars

\* Repeated cleanup(): rooms are created without an invite and exited by
\* cleanup() only, which is called any number of times (up to the bound),
\* directly or by the signal hook, overlapping or one after the other.
NextCleanups ==
  \/ ~Terminated /\ \E s \in RegistryRooms : CreateRoom(s, Undefined)
  \/ ~Terminated /\ MgrTick
  \/ ~Terminated /\ InstallSIGHandlers
  \/ ~Terminated /\ \E sig \in BOOLEAN : CleanupCall(sig)
  \/ ~Terminated /\ \E n \in 1..MaxCleanups : CleanupRejected(n)
  \/ ~Terminated /\ \E n \in 1..MaxCleanups : CleanupAfterExits(n)
  \/ ~Terminated /\ \E n \in 1..MaxCleanups : CleanupRelease(n)
  \/ ~Terminated /\ \E s \in Sessions : AppendDone(s)
  \/ ~Terminated /\ \E s \in Sessions, i \in 1..MaxExits : ExitFinish(s, i)

SpecCleanups == InitRegistry /\ [][NextCleanups]_vars

\* Under a policy that does not require identity proof newRoom does not look
\* at the whoami claim: there the remotes send no claim or a complete one.
Relevant(a) ==
  \/ expectations # Undefined /\ expectations.whoamiRequired
  \/ a = [accept |-> TRUE]
  \/ a = Keybase([username |-> "u", challengeResponse |-> [text |-> Nonce(0)]])

\* Every room request of the remote key has been answered.
Answered(key) ==
  \A n \in DOMAIN newRoomCalls :
    newRoomCalls[n].key = key => newRoomCalls[n].pc \in {"done", "threw"}

\* The negotiator: a registry made with no options, startAgreeable called
\* with some policy and with or without a hook; two remotes send expectations
\* requests at any time, one of them sends room requests, one after the other
\* (it waits for the answer before it sends the next), answering any
\* challenge issued so far, and the rooms of the accepted requests become
\* ready.
NextAgree ==
  \/ \E b \in BOOLEAN, hook \in BOOLEAN : StartAgreeable([whoamiRequired |-> b], hook)
  \/ \E key \in RemoteKeys : ExpectationsCall(key, FALSE)
  \/ \E n \in 1..MaxChallenges : ExpectationsGenerated(n)
  \/ \E a \in Agreements : Relevant(a) /\ Answered("A") /\ NewRoomCall("A", a)
  \/ \E n \in 1..MaxNewRooms, v \in BOOLEAN : NewRoomVerified(n, v)
  \/ \E n \in 1..MaxNewRooms : NewRoomChain(n)
  \/ \E n \in 1..MaxNewRooms, ok \in BOOLEAN : NewRoomValidated(n, ok)
  \/ \E n \in 1..MaxNewRooms : NewRoomReturn(n)
  \/ \E s \in RegistryRooms : ReadyAfterBase(s, 1)
  \/ \E s \in RegistryRooms : ReadyHostReturn(s, 1)

SpecAgree == InitSessions({}) /\ InitManager({}) /\ [][NextAgree]_vars

\* exit() step by step: a session made by its user (which owns its store,
\* swarm and pairing coordinator) and a session made by the registry (which
\* holds the registry's, and has the registry's roomClosed listener); exit()
\* is called on each any number of times (up to the bound), overlapping or
\* one after the other, and every awaited step of every call resolves on its
\* own.
NextExitSteps ==
  \/ CreateRoom("j", Undefined)
  \/ MgrTick
  \/ \E s \in Sessions : ExitCall(s)
  \/ \E s \in Sessions : AppendDone(s)
  \/ \E s \in Sessions, i \in 1..MaxExits : ExitUpdated(s, i)
  \/ \E s \in Sessions, i \in 1..MaxExits : ExitAdvance(s, i)

SpecExitSteps == Init /\ [][NextExitSteps]_vars

\* exit() with a failing log: the sessions and calls of NextExitSteps, and any
\* awaited append may reject.
NextExitFails ==
  \/ CreateRoom("j", Undefined)
  \/ MgrTick
  \/ \E s \in Sessions : ExitCall(s)
  \/ \E s \in Sessions : AppendDone(s)
  \/ \E s \in Sessions : AppendFails(s)
  \/ \E s \in Sessions, i \in 1..MaxExits : ExitUpdated(s, i)
  \/ \E s \in Sessions, i \in 1..MaxExits : ExitAdvance(s, i)

SpecExitFails == Init /\ [][NextExitFails]_vars

\* The order of notifications: host and joiner call ready() once and pair, the
\* joiner sends and leaves, and the host's merge engine delivers the joiner's
\* entries one 'append' signal after the other.  A deferred emit runs at the
\* end of the turn that deferred it, before the engine's next delivery; the
\* reads of handler runs already in flight may resolve within that turn.
NextOrder ==
  \/ \E t \in InviteTexts : Construct("j", t)
  \/ \E s \in Sessions : readyCalls[s] = <<>> /\ ReadyCall(s)
  \/ \E s \in Sessions, i \in 1..MaxReadyCalls : ReadyAfterBase(s, i)
  \/ \E s \in Sessions, i \in 1..MaxReadyCalls : ReadyJoinerReturn(s, i)
  \/ \E s \in Sessions, i \in 1..MaxReadyCalls : ReadyHostReturn(s, i)
  \/ \E s \in Sessions, c \in candidates : OnAddMember(s, c)
  \/ \E s \in Sessions : OnHostInvite(s)
  \/ \E d \in Data : Paired /\ Message("j", d)
  \/ Paired /\ IsReady("j") /\ exitCalls["j"] = <<>> /\ ExitCall("j")
  \/ \E s \in Sessions : AppendDone(s)
  \/ \E s \in Sessions, i \in 1..MaxExits : ExitFinish(s, i)
  \/ \E s \in Sessions, w \in Sessions, n \in 1..MaxBatch :
       OnlyViewer(s) /\ ticks[s] = <<>> /\ Apply(s, w, n)
  \/ \E s \in Sessions, i \in 1..MaxPending : HandlerResume(s, i)
  \/ \E s \in Sessions : Tick(s)

SpecOrder == Init /\ [][NextOrder]_vars

\* Reading the transcript: host and joiner call ready() once and pair, callers
\* send once paired and the joiner leaves, the host's merge engine delivers
\* the entries and the host's transcript is read while they arrive.
NextRead ==
  \/ \E t \in InviteTexts : Construct("j", t)
  \/ \E s \in Sessions : readyCalls[s] = <<>> /\ ReadyCall(s)
  \/ \E s \in Sessions, i \in 1..MaxReadyCalls : ReadyAfterBase(s, i)
  \/ \E s \in Sessions, i \in 1..MaxReadyCalls : ReadyJoinerReturn(s, i)
  \/ \E s \in Sessions, i \in 1..MaxReadyCalls : ReadyHostReturn(s, i)
  \/ \E s \in Sessions, c \in candidates : OnAddMember(s, c)
  \/ \E s \in Sessions : OnHostInvite(s)
  \/ \E s \in Sessions, d \in Data : Paired /\ Message(s, d)
  \/ Paired /\ IsReady("j") /\ exitCalls["j"] = <<>> /\ ExitCall("j")
  \/ \E s \in Sessions : AppendDone(s)
  \/ \E s \in Sessions, i \in 1..MaxExits : ExitFinish(s, i)
  \/ \E s \in Sessions, w \in Sessions, n \in 1..MaxBatch :
       OnlyViewer(s) /\ Apply(s, w, n)
  \/ \E s \in Sessions, i \in 1..MaxPending : HandlerResume(s, i)
  \/ \E s \in Sessions : Tick(s)
  \/ Paired /\ TranscriptCall("h")
  \/ \E s \in Sessions, c \in 1..MaxReads : TranscriptUpdated(s, c)
  \/ \E s \in Sessions, c \in 1..MaxReads : TranscriptGet(s, c)

SpecRead == Init /\ [][NextRead]_vars

\* The blocks of writer w reach session s: s reads its own log from its own
\* store, and another writer's blocks from that writer's session, which
\* serves them until its exit() has left the topic and closed its base (and
\* destroyed its swarm).
Serves(w, s) == w = s \/ ~closed[w]

\* A peer leaves: host and joiner call ready() once and pair, callers send
\* once paired, the joiner calls exit() once, and each session's merge engine
\* receives and applies the blocks the other one serves.
NextLeave ==
  \/ \E t \in InviteTexts : Construct("j", t)
  \/ \E s \in Sessions : readyCalls[s] = <<>> /\ ReadyCall(s)
  \/ \E s \in Sessions, i \in 1..MaxReadyCalls : ReadyAfterBase(s, i)
  \/ \E s \in Sessions, i \in 1..MaxReadyCalls : ReadyJoinerReturn(s, i)
  \/ \E s \in Sessions, i \in 1..MaxReadyCalls : ReadyHostReturn(s, i)
  \/ \E s \in Sessions, c \in candidates : OnAddMember(s, c)
  \/ \E s \in Sessions : OnHostInvite(s)
  \/ \E s \in Sessions, d \in Data : Paired /\ Message(s, d)
  \/ Paired /\ IsReady("j") /\ exitCalls["j"] = <<>> /\ ExitCall("j")
  \/ \E s \in Sessions : AppendDone(s)
  \/ \E s \in Sessions, i \in 1..MaxExits : ExitFinish(s, i)
  \/ \E s \in Sessions, w \in Sessions, n \in 1..MaxBatch :
       Serves(w, s) /\ Apply(s, w, n)
  \/ \E s \in Sessions, i \in 1..MaxPending : HandlerResume(s, i)
  \/ \E s \in Sessions : Tick(s)

\* Every step the event loop or an engine owes is taken in the end: pending
\* continuations, callbacks and deferred emits run, appends complete, and
\* blocks that stay available are received and applied.  Calls of the
\* session's users (ready, message, exit) are owed by nobody.
FairLeave ==
  /\ WF_vars(\E s \in Sessions, i \in 1..MaxReadyCalls : ReadyAfterBase(s, i))
  /\ WF_vars(\E s \in Sessions, i \in 1..MaxReadyCalls : ReadyJoinerReturn(s, i))
  /\ WF_vars(\E s \in Sessions, i \in 1..MaxReadyCalls : ReadyHostReturn(s, i))
  /\ WF_vars(\E s \in Sessions, c \in candidates : OnAddMember(s, c))
  /\ WF_vars(\E s \in Sessions : OnHostInvite(s))
  /\ \A s \in Sessions : WF_vars(AppendDone(s))
  /\ WF_vars(\E s \in Sessions, i \in 1..MaxExits : ExitFinish(s, i))
  /\ \A s \in Sessions, w \in Sessions :
       WF_vars(\E n \in 1..MaxBatch : Serves(w, s) /\ Apply(s, w, n))
  /\ \A s \in Sessions : WF_vars(\E i \in 1..MaxPending : HandlerResume(s, i))
  /\ \A s \in Sessions : WF_vars(Tick(s))

SpecLeave == Init /\ [][NextLeave]_vars /\ FairLeave

\* A complete keybase claim answering one of the challenges generated so far,
\* or no claim at all.
Answers == {[accept |-> TRUE]} \cup
  {Keybase([username |-> "u", challengeResponse |-> [text |-> t]]) : t \in Texts \ {Nonce(0)}}

\* Two remotes negotiate at once: under a policy requiring identity proof, with
\* a validation hook, both send expectations requests and room requests at any time (each waits for the
\* answer to its room request before it sends the next), answering any
\* challenge generated so far, its own or the other remote's.
NextKeys ==
  \/ StartAgreeable([whoamiRequired |-> TRUE], TRUE)
  \/ \E key \in RemoteKeys : ExpectationsCall(key, FALSE)
  \/ \E n \in 1..MaxChallenges : ExpectationsGenerated(n)
  \/ \E key \in RemoteKeys, a \in Answers : Answered(key) /\ NewRoomCall(key, a)
  \/ \E n \in 1..MaxNewRooms, v \in BOOLEAN : NewRoomVerified(n, v)
  \/ \E n \in 1..MaxNewRooms : NewRoomChain(n)
  \/ \E n \in 1..MaxNewRooms, ok \in BOOLEAN : NewRoomValidated(n, ok)
  \/ \E n \in 1..MaxNewRooms : NewRoomReturn(n)
  \/ \E s \in RegistryRooms : ReadyAfterBase(s, 1)
  \/ \E s \in RegistryRooms : ReadyHostReturn(s, 1)

SpecKeys == InitSessions({}) /\ InitManager({}) /\ [][NextKeys]_vars

\* ------------------------------------------------------- view notifications
IsViewNote(n) == n.kind \in {"message", "peerLeft"}

\* Some message or peerLeft notification was emitted for view entry i of s.
Notified(s, i) ==
  \E k \in DOMAIN notes[s] : IsViewNote(notes[s][k]) /\ notes[s][k].idx = i

\* View entry i of s was authored by another identity.
RemoteEntry(s, i) == view[s][i].who # metadata[s].who

\* No handler run and no deferred emit is outstanding on s.
Quiet(s) == pending[s] = <<>> /\ ticks[s] = <<>>

\* C1: every remote-authored entry committed to a session's view gets a
\* notification (message or peerLeft) from that session: once the handler runs
\* and deferred emits have drained, no remote-authored view entry is left
\* without one, bursts included.
C1_EveryRemoteEntryNotified ==
  \A s \in Sessions :
    Quiet(s) => \A i \in DOMAIN view[s] : RemoteEntry(s, i) => Notified(s, i)

\* C2: a session emits at most one message or peerLeft notification per view
\* entry, also when the append signal fires again for an unchanged view.
C2_AtMostOneNotificationPerEntry ==
  \A s \in Sessions : \A k1, k2 \in DOMAIN notes[s] :
    (IsViewNote(notes[s][k1]) /\ IsViewNote(notes[s][k2])
       /\ notes[s][k1].idx = notes[s][k2].idx) => k1 = k2

\* C3: an entry whose who equals the session's own metadata.who never produces
\* a message or peerLeft notification on that session, neither emitted nor
\* deferred.
C3_NoSelfNotification ==
  \A s \in Sessions :
    /\ \A k \in DOMAIN notes[s] :
         IsViewNote(notes[s][k]) =>
           /\ RemoteEntry(s, notes[s][k].idx)
           /\ notes[s][k].kind = "message" => notes[s][k].arg.who # metadata[s].who
           /\ notes[s][k].kind = "peerLeft" => notes[s][k].arg # metadata[s].who
    /\ \A k \in DOMAIN ticks[s] : ticks[s][k].entry.who # metadata[s].who

\* A view holds a notified remote entry followed by a local last entry whose
\* handler run has finished.
C3_Witness ==
  \E s \in Sessions :
    /\ Len(view[s]) >= 2
    /\ Quiet(s)
    /\ ~RemoteEntry(s, Len(view[s]))
    /\ \E i \in DOMAIN view[s] : RemoteEntry(s, i) /\ Notified(s, i)
    /\ effects[s].handlers = 1

\* What has been emitted or deferred for view entries is consistent with their
\* event marker: peerLeft (carrying the entry's who) exactly for leftChat
\* entries, message (carrying the entry) for the others, never both kinds for
\* one entry.
LeftChatNotes ==
  \A s \in Sessions :
    /\ \A k \in DOMAIN notes[s] :
         IsViewNote(notes[s][k]) =>
           LET e == view[s][notes[s][k].idx] IN
             /\ IsLeftChat(e) <=> notes[s][k].kind = "peerLeft"
             /\ notes[s][k].kind = "peerLeft" => notes[s][k].arg = e.who
             /\ notes[s][k].kind = "message" => notes[s][k].arg = e
    /\ \A k \in DOMAIN ticks[s] : ~IsLeftChat(ticks[s][k].entry)
    /\ \A k1, k2 \in DOMAIN notes[s] :
         (IsViewNote(notes[s][k1]) /\ IsViewNote(notes[s][k2])
            /\ notes[s][k1].idx = notes[s][k2].idx)
           => notes[s][k1].kind = notes[s][k2].kind

\* A step in which a handler run of s finishes on a remote leftChat entry emits
\* peerLeft with that entry's who and defers no message.
LeftChatStep ==
  \A s \in Sessions : \A i \in DOMAIN pending[s] :
    (/\ pending'[s] = RemoveAt(pending[s], i)
     /\ IsLeftChat(view[s][pending[s][i].idx])
     /\ RemoteEntry(s, pending[s][i].idx))
    => /\ notes'[s] = Append(notes[s],
            [kind |-> "peerLeft", arg |-> view[s][pending[s][i].idx].who,
             idx |-> pending[s][i].idx])
       /\ ticks'[s] = ticks[s]

\* C4: a view entry carrying the leftChat marker produces a peerLeft
\* notification with the departing identity and never a message notification;
\* no view entry produces both a message and a peerLeft notification.
C4_LeftChatIsPeerLeftOnly == []LeftChatNotes /\ [][LeftChatStep]_vars

\* A session has emitted peerLeft for a remote leftChat entry and message for
\* a remote data entry.
C4_Witness ==
  \E s \in Sessions :
    /\ \E k \in DOMAIN notes[s] :
         notes[s][k].kind = "peerLeft" /\ IsLeftChat(view[s][notes[s][k].idx])
    /\ \E k \in DOMAIN notes[s] : notes[s][k].kind = "message"

\* C5: the view is append-only under apply: every step leaves each view a
\* prefix of the view after the step.
C5_ViewAppendOnly == [][\A s \in Sessions : IsPrefix(view[s], view'[s])]_vars

\* A view has grown to three entries over more than one apply call, holding
\* entries of both writers.
C5_Witness ==
  \E s \in Sessions :
    /\ Len(view[s]) >= 3
    /\ \E i, k \in DOMAIN view[s] : RemoteEntry(s, i) /\ ~RemoteEntry(s, k)

MapAddWriter(q) == [k \in DOMAIN q |-> q[k].addWriter]

IsData(value) == ~IsControl(value)

IsUntaggedControl(value) == IsControl(value) /\ ~HasType(value.addWriter)

\* C6: after apply has processed a sequence of merged nodes, the view is the
\* subsequence of the non-control values, in merge order and verbatim; no
\* addWriter entry is in the view; the base.addWriter calls are exactly the
\* keys of the untagged addWriter entries, one call each, in order.
C6_ViewIsDataSubsequence ==
  \A s \in Sessions :
    /\ view[s] = SelectSeq(merged[s], IsData)
    /\ \A i \in DOMAIN view[s] : ~IsControl(view[s][i])
    /\ addWriterCalls[s] = MapAddWriter(SelectSeq(merged[s], IsUntaggedControl))

\* apply has processed an untagged addWriter, a tagged one and data entries.
C6_Witness ==
  \E s \in Sessions :
    /\ \E i \in DOMAIN merged[s] : IsUntaggedControl(merged[s][i])
    /\ \E i \in DOMAIN merged[s] :
         IsControl(merged[s][i]) /\ HasType(merged[s][i].addWriter)
    /\ Len(view[s]) >= 2
    /\ Len(addWriterCalls[s]) = 1

\* ------------------------------------------------------- ready and pairing
\* The first ready() call on s, the one that initializes it, has passed its
\* await of autobase.ready().
PastBase(s) == readyCalls[s] # <<>> /\ readyCalls[s][1].pc # "base"

\* C7: however many ready() calls are made on a session and however they
\* interleave, the view append handler is registered once, the discovery topic
\* is joined once and one pairing step is started (one addCandidate or one
\* addMember), all by the call that initializes the session.
C7_ReadyInitializesOnce ==
  \A s \in Sessions :
    LET n == IF PastBase(s) THEN 1 ELSE 0 IN
      /\ effects[s].handlers = n
      /\ effects[s].joins = n
      /\ effects[s].addCandidate + effects[s].addMember = n

\* A session on which two ready() calls overlapped (the second was made while
\* the first was in flight) and both have returned.
C7_Witness ==
  \E s \in Sessions :
    /\ Len(readyCalls[s]) >= 2
    /\ \A i \in DOMAIN readyCalls[s] : readyCalls[s][i].pc = "done"
    /\ ~readyCalls[s][2].late
    /\ effects[s].handlers = 1

\* C8: a ready() call made after the first ready() has completed returns the
\* value the first call returned (host: the encoded invite, joiner: nothing).
C8_LateReadyReturnsSame ==
  \A s \in Sessions : \A i \in DOMAIN readyCalls[s] :
    (readyCalls[s][i].pc = "done" /\ readyCalls[s][i].late)
      => readyCalls[s][i].ret = readyCalls[s][1].ret

\* C9: on the joiner path ready() returns only after the host's confirmation
\* carrying the host's writer key has been received.
C9_JoinerReadyAfterHandshake ==
  \A s \in Sessions :
    (effects[s].addCandidate > 0 /\ FirstReadyDone(s)) => handshakes[s] # {}

\* An addWriter append for key is still in flight on s.
Connecting(s, key) ==
  \E k \in DOMAIN appendQ[s] : appendQ[s][k].entry = [addWriter |-> key]

\* The addWriter entry for key is in s's own log.
Admitted(s, key) ==
  \E k \in DOMAIN localLog[s] : localLog[s][k] = [addWriter |-> key]

EnteredEmitted(s, key) ==
  \E k \in DOMAIN notes[s] :
    notes[s][k] = [kind |-> "peerEntered", arg |-> Z32Encode(key), idx |-> 0]

AdmittedUnder(s) ==
  {c \in candidates :
     /\ c.invite = CreateInvite(LocalKey(s)).invite
     /\ (Connecting(s, c.userData) \/ Admitted(s, c.userData))}

EnteredCount(s) == Len(SelectSeq(notes[s], LAMBDA n : n.kind = "peerEntered"))

\* C11: an invite is single-use: once one candidate has been paired under a
\* host's invite, a later candidate presenting the same invite is not
\* admitted: the host appends at most one addWriter entry and emits at most
\* one peerEntered for that invite.
C11_InviteSingleUse ==
  \A s \in Sessions :
    effects[s].addMember > 0 =>
      /\ Cardinality(AdmittedUnder(s)) <= 1
      /\ EnteredCount(s) <= 1

\* ------------------------------------------------------------ repeated exit
RoomClosedCount(s) == Len(SelectSeq(notes[s], LAMBDA n : n.kind = "roomClosed"))

LeftChatCount(s) ==
  Len(SelectSeq(localLog[s], IsLeftChat))
    + Len(SelectSeq(appendQ[s], LAMBDA q : IsLeftChat(q.entry)))

ClosesBy(who, kind) ==
  Len(SelectSeq(closes[who], LAMBDA c : c.kind = kind))

\* C12: exit() is idempotent: no exit() call raises an error, a session
\* appends its farewell entry once, releases each resource once and emits
\* roomClosed once (exactly once when an exit() has completed), however many
\* exit() calls are made on it.
C12_ExitIdempotent ==
  \A s \in Sessions :
    /\ \A i \in DOMAIN exitCalls[s] : exitCalls[s][i].pc # "failed"
    /\ closed[s] => LeftChatCount(s) <= 1
    /\ \A kind \in Kinds : ClosesBy(s, kind) <= 1
    /\ RoomClosedCount(s) <= 1
    /\ closed[s] => RoomClosedCount(s) = 1

\* ---------------------------------------------------------------- ownership
\* C13: exit() and cleanup() close only resources the closing object made
\* itself: no resource supplied by a caller (the registry's, handed to its
\* sessions, or the registry's caller's) is closed or destroyed by a
\* session's exit() or by the registry's cleanup().
C13_OnlyOwnResourcesClosed ==
  \A who \in Holders : \A k \in DOMAIN closes[who] :
    /\ closes[who][k].by = who
    /\ closes[who][k].res = who
    /\ closes[who][k].res # "caller"

\* A registry that was handed the swarm has cleaned up: a session it created
\* was exited and the registry has released a resource of its own.
C13_Witness ==
  /\ mgrResources["swarm"] = "caller"
  /\ \E n \in DOMAIN cleanupCalls : cleanupCalls[n].pc = "done"
  /\ \E s \in Sessions : closed[s] /\ resources[s]["pairing"] = "mgr"
  /\ closes["mgr"] # <<>>

\* ----------------------------------------------------------------- registry
MgrEvents == mgrTicks \o mgrNotes

\* s was created through createRoom (its newRoom emit is deferred or done).
CreatedByRegistry(s) ==
  \E k \in DOMAIN MgrEvents : MgrEvents[k] = [kind |-> "newRoom", room |-> s]

RoomClosedEmitted(s) == RoomClosedCount(s) > 0

\* No cleanup() call has got as far as resetting the mapping.
NoReset ==
  \A n \in DOMAIN cleanupCalls : cleanupCalls[n].pc \in {"exits", "failed"}

\* C14: after any sequence of createRoom and exit operations the registry
\* mapping holds exactly the sessions created through createRoom that have not
\* emitted roomClosed.
C14_MappingTracksOpenRooms ==
  NoReset =>
    rooms = {s \in Sessions : CreatedByRegistry(s) /\ ~RoomClosedEmitted(s)}

\* Two rooms were created; one has closed and left the mapping, the other is
\* still tracked.
C14_Witness ==
  /\ cleanupCalls = <<>>
  /\ \E s, t \in Sessions :
       /\ CreatedByRegistry(s) /\ RoomClosedEmitted(s) /\ s \notin rooms
       /\ CreatedByRegistry(t) /\ ~RoomClosedEmitted(t) /\ t \in rooms

\* The step is one in which the tracked session s emits roomClosed (the
\* registry's listener runs and removeAllListeners drops it).
ClosesTracked(s) == listeners[s] /\ ~listeners'[s]

LastRoomClosed == [kind |-> "lastRoomClosed", room |-> "none"]

\* A cleanup() call is in flight.
CleanupInFlight ==
  \E n \in DOMAIN cleanupCalls : cleanupCalls[n].pc \in {"exits", "release"}

ShuttingDown == closingDown \/ CleanupInFlight

LastRoomClosedStep ==
  \A s \in Sessions :
    ClosesTracked(s) =>
      /\ (rooms' = {} /\ ~ShuttingDown) => mgrTicks' = Append(mgrTicks, LastRoomClosed)
      /\ rooms' # {} => mgrTicks' = mgrTicks

\* C15: when a tracked session closes and the mapping thereby becomes empty
\* while the registry is not shutting down, the registry emits lastRoomClosed
\* (the emit is deferred in that step); when other sessions remain in the
\* mapping it does not.
C15_LastRoomClosedWhenEmpty == [][LastRoomClosedStep]_vars

\* Two rooms were created and closed without any shutdown, and lastRoomClosed
\* has been emitted once.
C15_Witness ==
  /\ cleanupCalls = <<>> /\ ~closingDown
  /\ \A s \in RegistryRooms : CreatedByRegistry(s) /\ RoomClosedEmitted(s)
  /\ Len(SelectSeq(mgrNotes, LAMBDA e : e = LastRoomClosed)) = 1
  /\ mgrTicks = <<>>

\* The signal hook has run: closingDown was set and cleanup() called.
HookRan == \E n \in DOMAIN cleanupCalls : cleanupCalls[n].signal

HookStep ==
  \A s \in Sessions : (ClosesTracked(s) /\ HookRan) => mgrTicks' = mgrTicks

\* C16: once the signal hook has run (closingDown set, then cleanup), no
\* session that closes during that shutdown makes the registry emit
\* lastRoomClosed.
C16_NoLastRoomClosedAfterSignal == [][HookStep]_vars

\* The hook's cleanup has exited both rooms, the mapping is empty, and no
\* lastRoomClosed was deferred or emitted.
C16_Witness ==
  /\ HookRan
  /\ \A s \in RegistryRooms :
       \E k \in DOMAIN exitCalls[s] : exitCalls[s][k].from = 1 /\ exitCalls[s][k].pc = "done"
  /\ rooms = {}
  /\ \A k \in DOMAIN MgrEvents : MgrEvents[k] # LastRoomClosed

\* A cleanup() call that was made directly is in flight.
DirectCleanupInFlight ==
  \E n \in DOMAIN cleanupCalls :
    ~cleanupCalls[n].signal /\ cleanupCalls[n].pc \in {"exits", "release"}

DirectCleanupStep ==
  \A s \in Sessions :
    (ClosesTracked(s) /\ DirectCleanupInFlight /\ rooms' = {}) => mgrTicks' = mgrTicks

\* C17: while the registry is mid-shutdown because cleanup() was called
\* directly, the close of the last tracked session does not make the registry
\* emit lastRoomClosed.
C17_NoLastRoomClosedDuringCleanup == [][DirectCleanupStep]_vars

\* ------------------------------------------------------------------ cleanup
\* A cleanup() call has passed its await of the exits.
PastExits(n) == cleanupCalls[n].pc \in {"release", "done"}

\* The step is one in which cleanup() call number n is made.
CleanupStarts(n) == Len(cleanupCalls) = n - 1 /\ Len(cleanupCalls') = n

ReleaseAfterExits ==
  /\ \A n \in DOMAIN cleanupCalls :
       PastExits(n) =>
         \A s \in Sessions : \A k \in DOMAIN exitCalls[s] :
           exitCalls[s][k].from = n => exitCalls[s][k].pc = "done"
  /\ closes["mgr"] # <<>>
       => \E n \in DOMAIN cleanupCalls : PastExits(n)

CleanupStep ==
  \A n \in 1..(Len(cleanupCalls) + 1) :
    /\ CleanupStarts(n) =>
         \A s \in rooms :
           /\ Len(exitCalls'[s]) = Len(exitCalls[s]) + 1
           /\ exitCalls'[s][Len(exitCalls'[s])].from = n
    /\ (n \in DOMAIN cleanupCalls /\ ~PastExits(n) /\ PastExits(n)') => rooms' = {}
    /\ (n \in DOMAIN cleanupCalls /\ PastExits(n)
          /\ cleanupCalls'[n] # cleanupCalls[n]) => rooms' = rooms

C19_CleanupReleasesAllOwned ==
  \A n \in DOMAIN cleanupCalls :
    (cleanupCalls[n].pc = "done" /\ \A kind \in Kinds : mgrInternal[kind])
      => \A kind \in Kinds : ClosesBy("mgr", kind) >= 1

\* C20: over any number of cleanup() calls, sequential or overlapping, direct
\* or by signal, each registry-owned resource is released at most once.
C20_ReleasedAtMostOnce == \A kind \in Kinds : ClosesBy("mgr", kind) <= 1

\* --------------------------------------------------------------- negotiation
\* The newRoom calls made so far, by their place in newRoomCalls.
NewRooms == DOMAIN newRoomCalls

\* The numbers of the challenge texts that expectations returned to key.
IssuedTo(key) ==
  {n \in 1..Generated :
     \E k \in DOMAIN expectationCalls :
       /\ expectationCalls[k].key = key
       /\ expectationCalls[k].pc = "done"
       /\ expectationCalls[k].result.challengeText = Nonce(n)}

\* The challenge most recently issued to key (texts are numbered in the order
\* they were issued), undefined when none was.
LatestIssued(key) ==
  IF IssuedTo(key) = {} THEN Undefined
  ELSE Nonce(CHOOSE n \in IssuedTo(key) : \A m \in IssuedTo(key) : m <= n)

\* The agreement carries a keybase claim with its username and its
\* challengeResponse.
CompleteClaim(a) ==
  HasWhoami(a) /\ HasKeybase(a) /\ HasUsername(a) /\ HasResponse(a)

\* The step is one in which a remote calls newRoom.
NewRequest == Len(newRoomCalls') = Len(newRoomCalls) + 1

RecordedIsLatest == \A key \in RemoteKeys : challengeTexts[key] = LatestIssued(key)

MismatchStep ==
  LET c == newRoomCalls'[Len(newRoomCalls')] IN
    (/\ NewRequest
     /\ expectations.whoamiRequired
     /\ CompleteClaim(c.agreement)
     /\ ResponseText(c.agreement) # LatestIssued(c.key))
    => /\ c.pc = "done"
       /\ c.result = [ok |-> FALSE, reason |-> "challengeText was modified"]
       /\ rooms' = rooms
       /\ constructed' = constructed

PassedChallenge(n) == "whoami" \in DOMAIN newRoomCalls[n].details

\* C22: a challenge text is single-use: no two room requests from one key pass
\* the challenge comparison with the same challenge text.
C22_ChallengeSingleUse ==
  \A n, m \in NewRooms :
    (/\ n < m
     /\ PassedChallenge(n) /\ PassedChallenge(m)
     /\ newRoomCalls[n].key = newRoomCalls[m].key
     /\ ResponseText(newRoomCalls[n].agreement) # Undefined)
    => ResponseText(newRoomCalls[n].agreement) # ResponseText(newRoomCalls[m].agreement)

\* The request was turned down: newRoom returned { ok: false } or threw.
Rejected(c) ==
  \/ c.pc = "threw"
  \/ c.pc = "done" /\ c.result.ok = FALSE

\* The sessions that exist are the rooms of requests that were not turned
\* down, one request each.
RoomsAreOfAccepted ==
  /\ \A n \in NewRooms : Rejected(newRoomCalls[n]) => newRoomCalls[n].room = "none"
  /\ \A s \in Sessions :
       constructed[s] <=> \E n \in NewRooms : newRoomCalls[n].room = s
  /\ rooms = {s \in Sessions : constructed[s]}

RejectionStep ==
  \A n \in DOMAIN newRoomCalls' :
    (/\ Rejected(newRoomCalls'[n])
     /\ (n \in DOMAIN newRoomCalls => ~Rejected(newRoomCalls[n])))
    => /\ rooms' = rooms
       /\ constructed' = constructed
       /\ readyCalls' = readyCalls

ReasonHolds(c) ==
  CASE c.result.reason = "whoami requested and not provided" ->
         expectations.whoamiRequired /\ ~HasWhoami(c.agreement)
    [] c.result.reason = "participant did not provide any known whoami response" ->
         expectations.whoamiRequired /\ HasWhoami(c.agreement) /\ ~HasKeybase(c.agreement)
    [] c.result.reason = "challengeText was modified" ->
         expectations.whoamiRequired /\ CompleteClaim(c.agreement)
    [] c.result.reason = "hook's reason" -> validateParticipant
    [] OTHER -> FALSE

\* C24: a room request that passes every check gets { ok: true, invite }:
\* one new session, its own, tracked in the registry and ready as a host, and
\* the invite returned is that session's invite text; a request is turned
\* down with { ok: false } only when the check its reason names failed.
C24_AcceptedCreatesReadyRoom ==
  \A n \in NewRooms :
    LET c == newRoomCalls[n] IN
      /\ (c.pc = "done" /\ c.result.ok) =>
           /\ c.room \in rooms
           /\ \A m \in NewRooms \ {n} : newRoomCalls[m].room # c.room
           /\ IsReady(c.room)
           /\ effects[c.room].addMember = 1 /\ effects[c.room].addCandidate = 0
           /\ invite[c.room] # Undefined
           /\ c.result.invite = Z32Encode(invite[c.room])
      /\ (c.pc = "done" /\ ~c.result.ok) => ReasonHolds(c)

\* Under a policy requiring proof, with a hook, a request answering the
\* challenge issued to its key was accepted and has its room's invite.
C24_Witness ==
  \E n \in NewRooms :
    /\ expectations.whoamiRequired /\ validateParticipant
    /\ newRoomCalls[n].pc = "done" /\ newRoomCalls[n].result.ok
    /\ ResponseText(newRoomCalls[n].agreement) = Nonce(1)
    /\ newRoomCalls[n].result.invite = Z32Encode(CreateInvite(LocalKey(newRoomCalls[n].room)).invite)

\* C25: a precondition violation in a room request (missing whoami,
\* mismatched challenge text, a keybase claim without its challengeResponse)
\* comes back as { ok: false, reason } and is not raised as an exception: no
\* newRoom call on a claim that names its user throws.
C25_ViolationsAreStructured ==
  \A n \in NewRooms :
    newRoomCalls[n].pc = "threw" =>
      /\ HasWhoami(newRoomCalls[n].agreement)
      /\ HasKeybase(newRoomCalls[n].agreement)
      /\ ~HasUsername(newRoomCalls[n].agreement)

\* The records of peer p in the view of s.
RecordsOf(s, p) == SelectSeq(view[s], LAMBDA e : e.who = metadata[p].who)

\* The last record of peer p in the view of s is p's leftChat.
FarewellIsLast(s, p) ==
  RecordsOf(s, p) # <<>> /\ IsLeftChat(RecordsOf(s, p)[Len(RecordsOf(s, p))])

\* s has emitted peerLeft with p's key.
PeerLeftEmitted(s, p) ==
  \E k \in DOMAIN notes[s] :
    notes[s][k].kind = "peerLeft" /\ notes[s][k].arg = metadata[p].who

\* C26: if a joined peer calls exit(), every other ready session of the room
\* eventually has that peer's leftChat as the peer's last record in its
\* transcript and eventually emits peerLeft with that peer's key (unless it
\* has left the room itself).
C26_FarewellReachesPeers ==
  \A p \in Sessions : \A s \in Sessions \ {p} :
    (Paired /\ exitCalls[p] # <<>> /\ IsReady(s))
      ~> (closed[s] \/ (FarewellIsLast(s, p) /\ PeerLeftEmitted(s, p)))

\* The getTranscript() calls made on s.
Reads(s) == DOMAIN transcriptCalls[s]

\* Call c on s returns in this step.
Returns(s, c) ==
  /\ c \in Reads(s)
  /\ transcriptCalls[s][c].pc # "done"
  /\ transcriptCalls'[s][c].pc = "done"

\* What a call has read so far is the view's first records, in view order,
\* and what a call returns is the whole view as it is at the return.
ReadInOrder ==
  \A s \in Sessions : \A c \in Reads(s) :
    /\ Len(transcriptCalls[s][c].transcript) = transcriptCalls[s][c].i
    /\ IsPrefix(transcriptCalls[s][c].transcript, view[s])

ReturnsWholeView ==
  \A s \in Sessions : \A c \in 1..MaxReads :
    Returns(s, c) => transcriptCalls'[s][c].transcript = view'[s]

\* C27: getTranscript returns the full sequence of records in the view at the
\* time it returns, in view order (index 0 to length - 1), none skipped or
\* repeated, also when the view grows while the transcript is being read.
C27_TranscriptIsWholeView == []ReadInOrder /\ [][ReturnsWholeView]_vars

\* A call has returned more records than the view held when its loop began,
\* among them records of both writers.
C27_Witness ==
  \E s \in Sessions : \E c \in Reads(s) :
    /\ transcriptCalls[s][c].pc = "done"
    /\ Len(transcriptCalls[s][c].transcript) > transcriptCalls[s][c].len0
    /\ transcriptCalls[s][c].len0 > 0
    /\ \E i, k \in DOMAIN transcriptCalls[s][c].transcript :
         transcriptCalls[s][c].transcript[i].who # transcriptCalls[s][c].transcript[k].who

\* The message and peerLeft notifications of s, in the order of their emission.
ViewNotes(s) == SelectSeq(notes[s], IsViewNote)

\* C28: within one session notifications are delivered in view order: of two
\* notified view entries the earlier one's notification (message or peerLeft)
\* is emitted first, message being deferred and peerLeft immediate.
C28_NotificationsInViewOrder ==
  \A s \in Sessions : \A k1, k2 \in DOMAIN ViewNotes(s) :
    k1 < k2 => ViewNotes(s)[k1].idx <= ViewNotes(s)[k2].idx

\* --------------------------------------------------------- the steps of exit
\* s has completed the append of a farewell entry.
FarewellLogged(s) == \E k \in DOMAIN localLog[s] : IsLeftChat(localLog[s][k])

\* Every resource s owns has been released by s.
OwnedReleased(s) ==
  \A kind \in Kinds : internalManaged[s][kind] => ClosesBy(s, kind) >= 1

\* The log of a session is closed only with its farewell in it, and a session
\* that has emitted roomClosed has closed its log and released what it owns.
ExitOrder ==
  \A s \in Sessions :
    /\ closed[s] => FarewellLogged(s)
    /\ RoomClosedCount(s) >= 1 => closed[s] /\ OwnedReleased(s)

\* A step of exit(): a release is made on a log closed in an earlier step;
\* roomClosed is emitted in a later step than the last release; the listeners
\* are removed in the step that emits roomClosed, after the registry's listener
\* has run.
ExitOrderStep ==
  \A s \in Sessions :
    /\ closes'[s] # closes[s] => closed[s] /\ FarewellLogged(s)
    /\ RoomClosedCount(s)' > RoomClosedCount(s) =>
         closed[s] /\ OwnedReleased(s) /\ closes'[s] = closes[s]
    /\ (listeners[s] /\ ~listeners'[s]) =>
         /\ RoomClosedCount(s)' = RoomClosedCount(s) + 1
         /\ s \notin rooms'

\* C29: exit() performs its steps in order: the farewell entry is appended
\* before the log is closed, owned resources are released after that,
\* roomClosed is emitted only after the releases, and the listeners are
\* removed only after roomClosed has been emitted.
C29_ExitStepsInOrder == []ExitOrder /\ [][ExitOrderStep]_vars

\* A session that owns its three resources has completed an exit() that
\* released them, and a registry session has completed an exit() whose
\* roomClosed reached the registry's listener before the listeners went.
C29_Witness ==
  /\ \E i \in DOMAIN exitCalls["h"] : exitCalls["h"][i].pc = "done"
  /\ \A kind \in Kinds : internalManaged["h"][kind] /\ ClosesBy("h", kind) = 1
  /\ RoomClosedCount("h") = 1
  /\ constructed["j"] /\ RoomClosedCount("j") = 1
  /\ ~listeners["j"] /\ "j" \notin rooms

\* C30: each resource a session owns (pairing coordinator, swarm, store) is
\* closed at most once by that session, also when two exit() calls on it run
\* concurrently.
C30_OwnedClosedOnceUnderConcurrentExits ==
  \A s \in Sessions : \A kind \in Kinds :
    internalManaged[s][kind] => ClosesBy(s, kind) <= 1

\* Every exit() call made on s has ended, by returning or by throwing.
ExitsEnded(s) ==
  \A i \in DOMAIN exitCalls[s] : exitCalls[s][i].pc \in {"done", "failed"}

\* C31: a failed exit still releases the locally owned resources: once the
\* exit() calls on a session have ended and one of them failed (its farewell
\* append, update or close threw), the session has called close or destroy on
\* each of the pairing coordinator, swarm and store it owns.
C31_FailedExitStillReleases ==
  \A s \in Sessions :
    (ExitsEnded(s) /\ \E i \in DOMAIN exitCalls[s] : exitCalls[s][i].pc = "failed")
      => OwnedReleased(s)

\* --------------------------------------------------- tagged control entries
IsTaggedControl(value) == IsControl(value) /\ HasType(value.addWriter)

\* The nodes apply processes on s in this step.
NewNodes(s) == SubSeq(merged'[s], Len(merged[s]) + 1, Len(merged'[s]))

\* An apply call changes the writers and the view as the same call without
\* its tagged addWriter entries would: a tagged entry adds no writer and no
\* view record, and the entries after it in the batch are processed.
TaggedSkippedStep ==
  \A s \in Sessions :
    /\ IsPrefix(merged[s], merged'[s])
    /\ addWriterCalls'[s] =
         addWriterCalls[s] \o MapAddWriter(SelectSeq(NewNodes(s), IsUntaggedControl))
    /\ view'[s] = view[s] \o SelectSeq(NewNodes(s), IsData)

\* C32: an addWriter control entry whose payload carries a type tag is skipped
\* entirely: it causes no base.addWriter call and adds nothing to the view,
\* and apply goes on with the next entry of the batch.
C32_TaggedAddWriterSkipped == [][TaggedSkippedStep]_vars

\* apply has processed a tagged addWriter entry directly followed by a data
\* entry, which is in the view; the only writer added is the untagged one.
C32_Witness ==
  \E s \in Sessions :
    /\ \E i \in DOMAIN merged[s] :
         /\ IsTaggedControl(merged[s][i])
         /\ i + 1 \in DOMAIN merged[s]
         /\ IsData(merged[s][i + 1])
         /\ \E k \in DOMAIN view[s] : view[s][k] = merged[s][i + 1]
    /\ Len(addWriterCalls[s]) = 1
    /\ \A k \in DOMAIN addWriterCalls[s] : ~HasType(addWriterCalls[s][k])

\* ------------------------------------------------- overwritten challenges
\* A room request arrives from a key to which two or more challenges were
\* issued and carries a complete keybase claim: it passes the challenge
\* comparison exactly when it answers the challenge issued last; answering an
\* earlier one it is rejected.
OverwriteStep ==
  LET c == newRoomCalls'[Len(newRoomCalls')] IN
    (/\ NewRequest
     /\ expectations.whoamiRequired
     /\ CompleteClaim(c.agreement)
     /\ Cardinality(IssuedTo(c.key)) >= 2)
    => /\ ("whoami" \in DOMAIN c.details) <=>
            (ResponseText(c.agreement) = LatestIssued(c.key))
       /\ (\E n \in IssuedTo(c.key) :
             /\ Nonce(n) # LatestIssued(c.key)
             /\ ResponseText(c.agreement) = Nonce(n))
          => c.result = [ok |-> FALSE, reason |-> "challengeText was modified"]

\* C33: a second expectations request for the same remote key overwrites the
\* pending challenge: afterwards a room request answering the first challenge
\* is rejected and only one answering the second passes the challenge check.
C33_SecondChallengeOverwrites == [][OverwriteStep]_vars

\* After two challenges were issued to one key, a request answering the first
\* was rejected and a request answering the second passed the comparison.
C33_Witness ==
  \E n, m \in NewRooms :
    /\ newRoomCalls[n].key = newRoomCalls[m].key
    /\ IssuedTo(newRoomCalls[n].key) = {1, 2}
    /\ CompleteClaim(newRoomCalls[n].agreement)
    /\ CompleteClaim(newRoomCalls[m].agreement)
    /\ ResponseText(newRoomCalls[n].agreement) = Nonce(1)
    /\ newRoomCalls[n].result = [ok |-> FALSE, reason |-> "challengeText was modified"]
    /\ ResponseText(newRoomCalls[m].agreement) = Nonce(2)
    /\ PassedChallenge(m)

\* ------------------------------------------------- expectations requests
\* The expectations call n returns in this step.
ExpectationsReturn(n) ==
  /\ n \in DOMAIN expectationCalls'
  /\ expectationCalls'[n].pc = "done"
  /\ n \in DOMAIN expectationCalls => expectationCalls[n].pc # "done"

\* The challenge texts returned before this step.
ReturnedTexts ==
  {expectationCalls[k].result.challengeText : k \in
     {k \in DOMAIN expectationCalls : expectationCalls[k].pc = "done"}}

\* An expectations request returns a copy of the configured expectations;
\* under a policy requiring identity proof the copy carries a fresh challenge,
\* which is then the one recorded for the remote's key; otherwise it carries
\* none.  The challenge map changes in no step under a policy that does not
\* require proof, and no step changes the configured expectations.
ExpectationsStep ==
  /\ expectations # Undefined =>
       /\ expectations' = expectations
       /\ ~expectations.whoamiRequired => challengeTexts' = challengeTexts
  /\ \A n \in 1..MaxChallenges :
       ExpectationsReturn(n) =>
         LET r == expectationCalls'[n].result
             key == expectationCalls'[n].key
         IN /\ r.copy = expectations
            /\ IF expectations.whoamiRequired
                 THEN /\ r.challengeText # Undefined
                      /\ r.challengeText \notin ReturnedTexts
                      /\ challengeTexts'[key] = r.challengeText
                 ELSE /\ r.challengeText = Undefined
                      /\ challengeTexts' = challengeTexts

\* C34: an expectations request generates and records a challenge for the
\* remote's key, and includes it in the returned expectations, exactly when
\* the host's policy requires identity proof; otherwise the challenge map is
\* left unchanged; in both cases the configured expectations object is not
\* modified (a copy is returned).
C34_ChallengeIssuedIffRequired == [][ExpectationsStep]_vars

\* Under a policy requiring proof two remotes were each returned a challenge,
\* which is recorded for them, and the configured expectations are as given.
C34_Witness ==
  /\ expectations = [whoamiRequired |-> TRUE]
  /\ \A key \in RemoteKeys :
       /\ challengeTexts[key] # Undefined
       /\ \E n \in DOMAIN expectationCalls :
            /\ expectationCalls[n].key = key
            /\ expectationCalls[n].pc = "done"
            /\ expectationCalls[n].result.challengeText = challengeTexts[key]
  /\ challengeTexts["A"] # challengeTexts["B"]

\* ------------------------------------------------------ distinct remotes
\* The remote keys whose negotiation this step belongs to: those of the calls
\* (room requests and expectations requests) that start or move on in it.
KeysActing ==
  {newRoomCalls'[n].key : n \in
     {n \in DOMAIN newRoomCalls' :
        n \in DOMAIN newRoomCalls => newRoomCalls'[n] # newRoomCalls[n]}}
  \cup
  {expectationCalls'[n].key : n \in
     {n \in DOMAIN expectationCalls' :
        n \in DOMAIN expectationCalls => expectationCalls'[n] # expectationCalls[n]}}

\* A step of one remote's negotiation leaves the other remotes' challenges and
\* calls as they are, and whether a room request with a complete claim passes
\* the challenge comparison is decided by the challenges issued to its own key:
\* it passes exactly when it answers the last of them.
DistinctKeysStep ==
  /\ Cardinality(KeysActing) <= 1
  /\ \A key \in RemoteKeys :
       challengeTexts'[key] # challengeTexts[key] => key \in KeysActing
  /\ LET c == newRoomCalls'[Len(newRoomCalls')] IN
       (NewRequest /\ expectations.whoamiRequired /\ CompleteClaim(c.agreement))
         => (("whoami" \in DOMAIN c.details) <=>
               (ResponseText(c.agreement) = LatestIssued(c.key)))

\* C35: negotiations from distinct remote keys never contend: a request for
\* key A never changes the challenge recorded for another key B, and what
\* becomes of B's room request is decided by B's own challenge and claim,
\* whatever operations for A are interleaved.
C35_DistinctKeysDoNotContend == [][DistinctKeysStep]_vars

\* Both remotes hold a challenge; A's request answering B's challenge was
\* rejected and B's request answering it passed the comparison.
C35_Witness ==
  /\ challengeTexts["A"] # Undefined /\ challengeTexts["B"] # Undefined
  /\ \E n, m \in NewRooms :
       /\ newRoomCalls[n].key = "A" /\ newRoomCalls[m].key = "B"
       /\ CompleteClaim(newRoomCalls[n].agreement)
       /\ CompleteClaim(newRoomCalls[m].agreement)
       /\ ResponseText(newRoomCalls[n].agreement) = challengeTexts["B"]
       /\ newRoomCalls[n].result = [ok |-> FALSE, reason |-> "challengeText was modified"]
       /\ ResponseText(newRoomCalls[m].agreement) = challengeTexts["B"]
       /\ PassedChallenge(m)

\* ------------------------------------------------------ the validation hook
\* The room request n gets its room in this step.
RoomMade(n) ==
  /\ n \in DOMAIN newRoomCalls'
  /\ newRoomCalls'[n].room # "none"
  /\ n \in DOMAIN newRoomCalls => newRoomCalls[n].room = "none"

\* The pc of request n before the step ("new" when the step is its call).
PcBefore(n) == IF n \in DOMAIN newRoomCalls THEN newRoomCalls[n].pc ELSE "new"

\* The whoami and challenge checks of the request are behind it: none was due,
\* or its claim passed them and carries the result of the verification.
ChecksPassed(c) ==
  expectations.whoamiRequired =>
    /\ "whoami" \in DOMAIN c.details
    /\ c.details.whoami.keybase.verified \in BOOLEAN
    /\ CompleteClaim(c.agreement)
    /\ c.details.whoami.keybase.username = c.agreement.whoami.keybase.username

\* The hook is consulted only for requests that passed the checks, with the
\* acceptance as it was sent.
HookAfterChecks ==
  \A n \in NewRooms :
    newRoomCalls[n].pc = "validate" =>
      validateParticipant /\ ChecksPassed(newRoomCalls[n])

\* The result of the verification never ends a request; with a hook the room
\* is made only in the step in which the hook's answer arrives, and that step
\* either makes the room or returns the hook's rejection; without a hook the
\* room is made as soon as the checks have passed.
ValidationStep ==
  \A n \in 1..MaxNewRooms :
    /\ PcBefore(n) \in {"verify", "chain"} =>
         newRoomCalls'[n].pc \in {"verify", "chain", "validate", "ready"}
    /\ (RoomMade(n) /\ validateParticipant) => PcBefore(n) = "validate"
    /\ (PcBefore(n) = "validate" /\ newRoomCalls'[n].pc # "validate") =>
         \/ RoomMade(n) /\ newRoomCalls'[n].pc = "ready"
         \/ /\ newRoomCalls'[n].pc = "done"
            /\ newRoomCalls'[n].result = [ok |-> FALSE, reason |-> "hook's reason"]
            /\ newRoomCalls'[n].room = "none"
    /\ (~validateParticipant /\ PcBefore(n) = "chain"
          /\ newRoomCalls'[n] # newRoomCalls[n]) => RoomMade(n)
    /\ n \in DOMAIN newRoomCalls =>
         newRoomCalls'[n].agreement = newRoomCalls[n].agreement

\* C36: a failed signature verification does not by itself reject the request:
\* verified = false goes with the raw acceptance to the validation hook, which
\* is invoked only after the whoami and challenge checks passed; the room is
\* created iff the hook returns ok (or no hook was supplied), and a negative
\* hook result is returned as { ok: false, reason } with the hook's reason.
C36_UnverifiedGoesToHook == []HookAfterChecks /\ [][ValidationStep]_vars

\* With a hook: a request whose verification failed was accepted by the hook
\* and got its room, and another request was turned down by the hook.
C36_Witness ==
  /\ validateParticipant
  /\ \E n, m \in NewRooms :
       /\ "whoami" \in DOMAIN newRoomCalls[n].details
       /\ newRoomCalls[n].pc = "done"
       /\ newRoomCalls[n].details.whoami.keybase.verified = FALSE
       /\ newRoomCalls[n].result.ok
       /\ newRoomCalls[m].result = [ok |-> FALSE, reason |-> "hook's reason"]

\* --------------------------------------------------- no challenge issued
\* The request is turned down in the step that receives it.
TurnedDown(c) == c.pc \in {"done", "threw"} /\ c.room = "none" /\ Rejected(c)

\* A room request arrives, under a policy requiring identity proof, from a key
\* to which no challenge was ever issued: it is rejected, whatever its claim.
UnchallengedStep ==
  LET c == newRoomCalls'[Len(newRoomCalls')] IN
    (/\ NewRequest
     /\ expectations.whoamiRequired
     /\ \A k \in DOMAIN expectationCalls : expectationCalls[k].key # c.key)
    => TurnedDown(c)

\* C37: under a policy requiring identity proof, a room request from a remote
\* key for which no expectations request was ever made (so no challenge was
\* issued to it) is rejected, also when the challengeResponse of its keybase
\* claim carries no text.
C37_UnchallengedKeyRejected == [][UnchallengedStep]_vars

\* --------------------------------------------- challenge at room creation
\* A room request with a keybase claim that answers a challenge gets its room:
\* its response text is the challenge recorded for its key at that moment.
CreationStep ==
  \A n \in 1..MaxNewRooms :
    (/\ RoomMade(n)
     /\ expectations.whoamiRequired
     /\ "whoami" \in DOMAIN newRoomCalls'[n].details
     /\ ResponseText(newRoomCalls'[n].agreement) # Undefined)
    => /\ ResponseText(newRoomCalls'[n].agreement) = challengeTexts[newRoomCalls'[n].key]
       /\ challengeTexts' = challengeTexts

\* C38: under a policy requiring identity proof, the room of an accepted
\* request is created for an acceptance whose challengeResponse.text equals
\* the challenge recorded for its key at the moment of creation, also when an
\* expectations request for the same key comes between the challenge
\* comparison and the creation.
C38_ChallengeCurrentAtCreation == [][CreationStep]_vars

\* ------------------------------------------------- overlapping ready calls
\* A session on the host side: it holds no invite from construction, or its
\* first ready() took the createInvite/addMember branch.
HostSide(s) ==
  /\ constructed[s]
  /\ effects[s].addCandidate = 0
  /\ (invite[s] = Undefined \/ effects[s].addMember > 0)

\* C39: every ready() call on a host session that has returned returned after
\* the first call completed (the handshake is set up, the invite is stored)
\* and returned an invite, also a second call made while the first is still
\* in flight.
C39_OverlappingReadyWaits ==
  \A s \in Sessions :
    HostSide(s) =>
      \A i \in DOMAIN readyCalls[s] :
        readyCalls[s][i].pc = "done"
          => /\ readyCalls[s][1].pc = "done"
             /\ readyCalls[s][i].ret # Undefined

\* ------------------------------------------------ rooms made during cleanup
\* Every session that leaves the registry mapping in a step has had exit()
\* called on it.
DroppedStep ==
  \A s \in rooms \ rooms' : exitCalls[s] # <<>>

\* C40: every session dropped from the registry mapping has been exited, also
\* a session created through createRoom after a cleanup() call made its exit()
\* calls and before that call resets the mapping.
C40_DroppedRoomsWereExited == [][DroppedStep]_vars
====
